---- MODULE Spec2Model ----
(***************************************************************************)
(* A model of the spreadsheet layout parser of sheet_parser                *)
(* (src/sheet_parser/src/xlsx_parser.py, class CondoRentalParser).         *)
(*                                                                         *)
(* Text is a sequence of one-character strings, so that split, rfind,      *)
(* strip, substring tests and int() are computed and not assumed.  A cell  *)
(* value is a tagged record PyNone / PyInt / PyFloat / PyStr / PyBool; a   *)
(* float carries its value in tenths (PyFloat(15) is 1.5).  A fill is what  *)
(* _get_cell_color reads of a cell: fill_type, start_color.index and       *)
(* start_color.rgb.                                                        *)
(***************************************************************************)
EXTENDS Integers, Sequences, FiniteSets, TLC

VARIABLES
    sheetName,   \* the name of the one sheet of the workbook file
    cells,       \* the file's cell values: <<row, col>> -> value (absent: empty cell)
    notes,       \* the file's cell comments: <<row, col>> -> text
    fills,       \* the file's cell fills: <<row, col>> -> fill descriptor
    workbook,    \* self.workbook / self.workbook_with_comments: "none" or "loaded"
    ret,         \* the last call of a parser method and what it produced
    previous,    \* the call before it, kept when both are calls of parse_sheet
    parsers,     \* the parser objects of concurrent callers, each in its parse_sheet
    db,          \* the committed rows: import_logs, bookings, reservations
    jobs,        \* the import jobs under way: locals and open transaction of each
    ongoing_imports,  \* import_routes.ongoing_imports: correlation id -> status
    comms,       \* the communications table and the emails handed to the sender
    sel          \* a month selection: the date, the months asked for, the sheets chosen

parserVars == <<sheetName, cells, notes, fills, workbook, ret, previous>>

\* the state of the callers of the parser: importer, import job, sender
callerVars == <<parsers, db, jobs, ongoing_imports, comms, sel>>

vars == <<sheetName, cells, notes, fills, workbook, ret, previous,
          parsers, db, jobs, ongoing_imports, comms, sel>>

-----------------------------------------------------------------------------
(* Python values *)

PyNone == [t |-> "none", n |-> 0, s |-> <<>>]
PyInt(k) == [t |-> "int", n |-> k, s |-> <<>>]
PyFloat(tenths) == [t |-> "float", n |-> tenths, s |-> <<>>]
PyStr(chars) == [t |-> "str", n |-> 0, s |-> chars]
PyBool(b) == [t |-> "bool", n |-> IF b THEN 1 ELSE 0, s |-> <<>>]

Digits == <<"0", "1", "2", "3", "4", "5", "6", "7", "8", "9">>

IsDigitChar(c) == \E i \in 1..10 : Digits[i] = c

DigitVal(c) == (CHOOSE i \in 1..10 : Digits[i] = c) - 1

\* str.strip() / int() strip these
IsSpaceChar(c) == c \in {" ", "\t", "\n"}

\* s[a:b] with 0-based a (inclusive) and b (exclusive), as a Python slice
Slice(s, a, b) == [i \in 1..(IF b > a THEN b - a ELSE 0) |-> s[a + i]]

RECURSIVE LStrip(_)
LStrip(s) ==
    IF s # <<>> /\ IsSpaceChar(Head(s)) THEN LStrip(Tail(s)) ELSE s

RECURSIVE RStrip(_)
RStrip(s) ==
    IF s # <<>> /\ IsSpaceChar(s[Len(s)]) THEN RStrip(SubSeq(s, 1, Len(s) - 1)) ELSE s

\* str.strip()
Strip(s) == RStrip(LStrip(s))

\* sub in s, for two strings
Contains(s, sub) ==
    \E i \in 0..(Len(s) - Len(sub)) : SubSeq(s, i + 1, i + Len(sub)) = sub

\* str.split(' '): every single space separates, empty parts are kept
RECURSIVE SplitFrom(_, _, _)
SplitFrom(s, i, cur) ==
    IF i > Len(s) THEN <<cur>>
    ELSE IF s[i] = " " THEN <<cur>> \o SplitFrom(s, i + 1, <<>>)
    ELSE SplitFrom(s, i + 1, Append(cur, s[i]))

Split(s) == SplitFrom(s, 1, <<>>)

\* str.rfind(c): the 0-based index of the last c, -1 when there is none
RECURSIVE RFindFrom(_, _, _)
RFindFrom(s, c, i) ==
    IF i = 0 THEN -1
    ELSE IF s[i] = c THEN i - 1
    ELSE RFindFrom(s, c, i - 1)

RFind(s, c) == RFindFrom(s, c, Len(s))

\* str.isdigit()
IsDigitStr(s) == s # <<>> /\ \A i \in 1..Len(s) : IsDigitChar(s[i])

\* the digits of an int literal after its sign: digits, single underscores between
RECURSIVE DigitsValue(_, _, _)
DigitsValue(s, i, acc) ==
    IF i > Len(s) THEN [ok |-> TRUE, v |-> acc]
    ELSE IF IsDigitChar(s[i]) THEN DigitsValue(s, i + 1, acc * 10 + DigitVal(s[i]))
    ELSE IF s[i] = "_" /\ i > 1 /\ i < Len(s) /\ IsDigitChar(s[i - 1]) /\ IsDigitChar(s[i + 1])
         THEN DigitsValue(s, i + 1, acc)
    ELSE [ok |-> FALSE, v |-> 0]

\* int(text): surrounding whitespace, an optional sign, then the digits
IntOfStr(s) ==
    LET b == Strip(s)
        signed == b # <<>> /\ b[1] \in {"+", "-"}
        d == IF signed THEN Tail(b) ELSE b
        r == IF d = <<>> THEN [ok |-> FALSE, v |-> 0] ELSE DigitsValue(d, 1, 0)
    IN  IF r.ok /\ signed /\ b[1] = "-" THEN [ok |-> TRUE, v |-> 0 - r.v] ELSE r

\* int(float): truncation towards zero
TruncTenths(n) == IF n >= 0 THEN n \div 10 ELSE 0 - ((0 - n) \div 10)

\* int(x); ok = FALSE stands for ValueError / TypeError
PyIntOf(x) ==
    CASE x.t = "int" -> [ok |-> TRUE, v |-> x.n]
      [] x.t = "bool" -> [ok |-> TRUE, v |-> x.n]
      [] x.t = "float" -> [ok |-> TRUE, v |-> TruncTenths(x.n)]
      [] x.t = "str" -> IntOfStr(x.s)
      [] OTHER -> [ok |-> FALSE, v |-> 0]

\* the decimal digits of a natural number
RECURSIVE NatStr(_)
NatStr(k) == IF k < 10 THEN <<Digits[k + 1]>> ELSE Append(NatStr(k \div 10), Digits[(k % 10) + 1])

IntStr(k) == IF k < 0 THEN <<"-">> \o NatStr(0 - k) ELSE NatStr(k)

\* str(x)
PyStrOf(x) ==
    CASE x.t = "str" -> x.s
      [] x.t = "int" -> IntStr(x.n)
      [] x.t = "float" ->
            (IF x.n < 0 THEN <<"-">> ELSE <<>>)
                \o NatStr((IF x.n < 0 THEN 0 - x.n ELSE x.n) \div 10)
                \o <<".">>
                \o NatStr((IF x.n < 0 THEN 0 - x.n ELSE x.n) % 10)
      [] x.t = "bool" -> IF x.n = 1 THEN <<"T", "r", "u", "e">> ELSE <<"F", "a", "l", "s", "e">>
      [] OTHER -> <<"N", "o", "n", "e">>

\* the truth value of x in `if x:`
Truthy(x) ==
    CASE x.t = "none" -> FALSE
      [] x.t = "str" -> x.s # <<>>
      [] OTHER -> x.n # 0

\* a number left-padded with zeros to the given width, as in date.isoformat()
RECURSIVE ZeroPad(_, _)
ZeroPad(s, w) == IF Len(s) >= w THEN s ELSE ZeroPad(<<"0">> \o s, w)

-----------------------------------------------------------------------------
(* datetime.date *)

IsLeap(y) == y % 4 = 0 /\ (y % 100 # 0 \/ y % 400 = 0)

DaysInMonth(y, m) ==
    IF m = 2 THEN (IF IsLeap(y) THEN 29 ELSE 28)
    ELSE IF m \in {4, 6, 9, 11} THEN 30
    ELSE 31

\* date(y, m, d) raises ValueError unless this holds
ValidDate(y, m, d) ==
    /\ 1 <= y /\ y <= 9999
    /\ 1 <= m /\ m <= 12
    /\ 1 <= d /\ d <= DaysInMonth(y, m)

\* date(y, m, d).isoformat()
IsoFormat(y, m, d) ==
    ZeroPad(NatStr(y), 4) \o <<"-">> \o ZeroPad(NatStr(m), 2) \o <<"-">> \o ZeroPad(NatStr(d), 2)

-----------------------------------------------------------------------------
(* CondoRentalParser: constants *)

\* the legend: colour code, theme index when the key has one, meaning
COLOR_LEGEND ==
    << [hex |-> <<"#", "F", "F", "6", "B", "6", "B">>, has_index |-> TRUE, index |-> 5,
        meaning |-> "Pendiente de pago"],
       [hex |-> <<"#", "F", "F", "C", "0", "0", "0">>, has_index |-> TRUE, index |-> 7,
        meaning |-> "Cliente Airbnb"],
       [hex |-> <<"#", "2", "F", "7", "5", "B", "5">>, has_index |-> TRUE, index |-> 4,
        meaning |-> "Larga estadia"],
       [hex |-> <<"#", "2", "F", "7", "5", "B", "5">>, has_index |-> TRUE, index |-> 8,
        meaning |-> "Larga estadia"],
       [hex |-> <<"#", "F", "4", "0", "8", "F", "C">>, has_index |-> TRUE, index |-> 6,
        meaning |-> "Apto no disponible"],
       [hex |-> <<"#", "0", "0", "F", "F", "F", "F">>, has_index |-> FALSE, index |-> 0,
        meaning |-> "Cliente referido"],
       [hex |-> <<"#", "7", "5", "7", "1", "7", "1">>, has_index |-> TRUE, index |-> 0,
        meaning |-> "Mantenimiento"],
       [hex |-> <<"#", "5", "4", "8", "2", "3", "5">>, has_index |-> TRUE, index |-> 9,
        meaning |-> "Booking"],
       [hex |-> <<"#", "2", "9", "E", "8", "1", "7">>, has_index |-> FALSE, index |-> 0,
        meaning |-> "Cliente VRBO"] >>

SPANISH_MONTHS ==
    << <<"E", "n", "e", ".">>, <<"F", "e", "b", ".">>, <<"M", "a", "r", ".">>,
       <<"A", "b", "r", ".">>, <<"M", "a", "y", ".">>, <<"J", "u", "n", ".">>,
       <<"J", "u", "l", ".">>, <<"A", "g", "o", ".">>, <<"S", "e", "p", ".">>,
       <<"O", "c", "t", ".">>, <<"N", "o", "v", ".">>, <<"D", "i", "c", ".">> >>

EXCLUDED_BUILDINGS ==
    << <<"L", "I", "M", "P", "I", "E", "Z", "A", "S", " ",
         "E", "X", "T", "E", "R", "N", "A", "S">> >>

OTROS_APARTAMENTOS ==
    <<"O", "T", "R", "O", "S", " ", "A", "P", "A", "R", "T", "A", "M", "E", "N", "T", "O", "S">>

HEADER_MARKER == <<"H">>

\* the result of a call: a value returned, or an exception raised
Return(v) == [kind |-> "return", val |-> v]
Raise(e) == [kind |-> "raise", val |-> e]

NoDate == [month |-> 0, year |-> 0, some |-> FALSE]

-----------------------------------------------------------------------------
(* parse_sheet_date *)

\* parse_sheet_date with the token count tested as `< 2`: trailing tokens are ignored
ParseSheetDateMutant(name) ==
    LET parts == Split(name)
    IN  IF Len(parts) < 2 THEN NoDate
        ELSE IF ~ \E m \in 1..12 : SPANISH_MONTHS[m] = parts[1] THEN NoDate
        ELSE IF ~ IntOfStr(parts[2]).ok THEN NoDate
        ELSE [month |-> CHOOSE m \in 1..12 : SPANISH_MONTHS[m] = parts[1],
              year |-> IntOfStr(parts[2]).v, some |-> TRUE]

\* (month, year), or (None, None) as NoDate; every exception is caught
ParseSheetDate(name) ==
    LET parts == Split(name)
    IN  IF Len(parts) # 2 THEN NoDate
        ELSE IF ~ \E m \in 1..12 : SPANISH_MONTHS[m] = parts[1] THEN NoDate
        ELSE IF ~ IntOfStr(parts[2]).ok THEN NoDate
        ELSE [month |-> CHOOSE m \in 1..12 : SPANISH_MONTHS[m] = parts[1],
              year |-> IntOfStr(parts[2]).v, some |-> TRUE]

-----------------------------------------------------------------------------
(* the loaded workbook: one sheet, two views of the same file *)

\* sheet.cell(row, column).value in the values view
Cell(r, c) == IF <<r, c>> \in DOMAIN cells THEN cells[<<r, c>>] ELSE PyNone

\* cell.comment.text in the view that keeps the comments; PyNone without a comment
Comment(r, c) == IF <<r, c>> \in DOMAIN notes THEN PyStr(notes[<<r, c>>]) ELSE PyNone

\* the fill of a cell that has none set: no pattern, start colour '00000000'
DefaultFill ==
    [fill_type |-> "None",
     index |-> PyStr(<<"0", "0", "0", "0", "0", "0", "0", "0">>),
     rgb |-> PyStr(<<"0", "0", "0", "0", "0", "0", "0", "0">>)]

\* cell.fill in the view that keeps the comments
Fill(r, c) == IF <<r, c>> \in DOMAIN fills THEN fills[<<r, c>>] ELSE DefaultFill

\* self.workbook.sheetnames
SheetNames == {sheetName}

\* openpyxl.utils.column_index_from_string, for upper-case letters
Letters ==
    <<"A", "B", "C", "D", "E", "F", "G", "H", "I", "J", "K", "L", "M",
      "N", "O", "P", "Q", "R", "S", "T", "U", "V", "W", "X", "Y", "Z">>

IsAlphaChar(c) == \E i \in 1..26 : Letters[i] = c

LetterVal(c) == CHOOSE i \in 1..26 : Letters[i] = c

RECURSIVE ColumnIndexFrom(_, _, _)
ColumnIndexFrom(s, i, acc) ==
    IF i > Len(s) THEN acc ELSE ColumnIndexFrom(s, i + 1, acc * 26 + LetterVal(s[i]))

ColumnIndex(letters) == ColumnIndexFrom(letters, 1, 0)

\* _parse_cell_reference: the letters of the reference, and int() of its digits
ParseCellReference(ref) ==
    [col |-> SelectSeq(ref, IsAlphaChar),
     row |-> IntOfStr(SelectSeq(ref, IsDigitChar)).v]

\* read_range: the rows start_cell..end_cell, each a list of cell values
ReadRange(name, start_cell, end_cell) ==
    IF workbook # "loaded" THEN <<>>
    ELSE IF name \notin SheetNames THEN <<>>
    ELSE LET a == ParseCellReference(start_cell)
             b == ParseCellReference(end_cell)
             c0 == ColumnIndex(a.col)
             c1 == ColumnIndex(b.col)
         IN  [i \in 1..(b.row - a.row + 1) |->
                [j \in 1..(c1 - c0 + 1) |-> Cell(a.row + i - 1, c0 + j - 1)]]

-----------------------------------------------------------------------------
(* _get_cell_color *)

LowerLetters ==
    <<"a", "b", "c", "d", "e", "f", "g", "h", "i", "j", "k", "l", "m",
      "n", "o", "p", "q", "r", "s", "t", "u", "v", "w", "x", "y", "z">>

\* str.upper()
Upper(s) ==
    [i \in 1..Len(s) |->
        IF \E k \in 1..26 : LowerLetters[k] = s[i]
        THEN Letters[CHOOSE k \in 1..26 : LowerLetters[k] = s[i]]
        ELSE s[i]]

\* str.startswith(prefix)
StartsWith(s, prefix) == Len(s) >= Len(prefix) /\ SubSeq(s, 1, Len(prefix)) = prefix

\* the dict color_info; meaning = NoMeaning: the dict has no key "meaning"
NoMeaning == ""

ColorInfo(type, value, meaning) == [type |-> type, value |-> value, meaning |-> meaning]

\* f"#{rgb[2:]}" when rgb starts with 'FF', f"#{rgb}" otherwise
RgbHex(rgb) ==
    IF StartsWith(rgb, <<"F", "F">>)
    THEN <<"#">> \o Slice(rgb, 2, Len(rgb))
    ELSE <<"#">> \o rgb

\* the legend entries whose colour code is rgb_hex, whatever the case
LegendByHex(rgb_hex) ==
    SelectSeq(COLOR_LEGEND, LAMBDA e : Upper(e.hex) = Upper(rgb_hex))

\* the legend entries whose key has the theme index color_index
LegendByIndex(color_index) ==
    SelectSeq(COLOR_LEGEND, LAMBDA e : e.has_index /\ e.index = color_index)

\* rgb and isinstance(rgb, str); reading rgb may also raise, which `except: pass`
\* treats like a value that is no text (fill.rgb = PyNone stands for both)
RgbObtained(fill) == fill.rgb.t = "str" /\ fill.rgb.s # <<>>

\* the outcome for an obtained rgb: type "rgb", the hex as written, the meaning of the
\* first legend entry of that colour code, if any
ColorOfRgb(rgb) ==
    LET rgb_hex == RgbHex(rgb)
        found == LegendByHex(rgb_hex)
    IN  ColorInfo("rgb", PyStr(rgb_hex), IF found # <<>> THEN found[1].meaning ELSE NoMeaning)

\* _get_cell_color(cell), from the fill of the cell; PyNone is None
GetCellColor(fill) ==
    LET color_index == fill.index
    IN  IF fill.fill_type = "none"
           \/ color_index = PyStr(<<"0", "0", "0", "0", "0", "0", "0", "0">>)
        THEN PyNone
        ELSE IF color_index.t \in {"int", "bool"}
        THEN IF RgbObtained(fill) THEN ColorOfRgb(fill.rgb.s)
             ELSE LET found == LegendByIndex(color_index.n)
                  IN  IF found # <<>>
                      THEN ColorInfo("rgb", PyStr(found[1].hex), found[1].meaning)
                      ELSE ColorInfo("theme", color_index, NoMeaning)
        ELSE IF color_index.t = "str"
        THEN IF StartsWith(color_index.s, <<"F", "F">>) THEN ColorOfRgb(color_index.s)
             ELSE IF RgbObtained(fill) THEN ColorOfRgb(fill.rgb.s)
             ELSE ColorInfo("other", color_index, NoMeaning)
        ELSE ColorInfo("unknown", PyNone, NoMeaning)

-----------------------------------------------------------------------------
(* find_building_rows *)

\* range(6, 122)
SCAN_FIRST == 6
SCAN_STOP == 122

\* isinstance(cell_a, (int, float)) or (isinstance(cell_a, str) and cell_a.isdigit())
LooksLikeCount(a) ==
    \/ a.t \in {"int", "float", "bool"}
    \/ a.t = "str" /\ IsDigitStr(a.s)

IsBuildingStart(row) ==
    /\ Cell(row, 2) # PyNone
    /\ LooksLikeCount(Cell(row, 1))
    /\ Cell(row + 1, 1) = PyStr(HEADER_MARKER)

FindBuildingRows(name) ==
    IF workbook # "loaded" THEN <<>>
    ELSE IF name \notin SheetNames THEN <<>>
    ELSE SelectSeq([i \in 1..(SCAN_STOP - SCAN_FIRST) |-> SCAN_FIRST + i - 1], IsBuildingStart)

-----------------------------------------------------------------------------
(* parse_building_table *)

EmptyDict == [empty |-> TRUE]

\* the exclusion test with `==` for `in`: only the exact name is excluded
IsExcludedMutant(building_name) ==
    /\ Truthy(building_name)
    /\ \E k \in 1..Len(EXCLUDED_BUILDINGS) : PyStrOf(building_name) = EXCLUDED_BUILDINGS[k]

\* building_name and excluded_building in str(building_name), for some excluded one
IsExcluded(building_name) ==
    /\ Truthy(building_name)
    /\ \E k \in 1..Len(EXCLUDED_BUILDINGS) :
            Contains(PyStrOf(building_name), EXCLUDED_BUILDINGS[k])

\* the fallback count: consecutive non-empty cells of column A from the given row
RECURSIVE CountColumnA(_)
CountColumnA(row) == IF Cell(row, 1) = PyNone THEN 0 ELSE 1 + CountColumnA(row + 1)

\* num_apartments with the fallback count begun at the header marker row
NumApartmentsMutant(start_row) ==
    LET r == PyIntOf(Cell(start_row, 1))
    IN  IF r.ok THEN r.v ELSE CountColumnA(start_row + 1)

\* num_apartments: int(A[start_row]), or the fallback count when int() fails
NumApartments(start_row) ==
    LET r == PyIntOf(Cell(start_row, 1))
    IN  IF r.ok THEN r.v ELSE CountColumnA(start_row + 2)

\* an entry of dates built without date()'s range check: a day past the end of the
\* month rolls over into the next month
HeaderDateMutant(d, date_num) ==
    IF date_num = PyNone THEN PyNone
    ELSE LET r == IF date_num.t \in {"int", "bool"}
                  THEN [ok |-> TRUE, v |-> date_num.n]
                  ELSE IntOfStr(Strip(PyStrOf(date_num)))
         IN  IF ~ r.ok THEN PyNone
             ELSE IF ValidDate(d.year, d.month, r.v)
                  THEN PyStr(IsoFormat(d.year, d.month, r.v))
             ELSE IF r.v > DaysInMonth(d.year, d.month) /\ r.v <= 31
                     /\ 1 <= d.year /\ d.year <= 9999
                  THEN PyStr(IsoFormat(IF d.month = 12 THEN d.year + 1 ELSE d.year,
                                       (d.month % 12) + 1,
                                       r.v - DaysInMonth(d.year, d.month)))
             ELSE PyNone

\* an entry of dates that reads native integers only: a day number held as text
\* gives no date
HeaderDateOfInt(d, date_num) ==
    IF date_num = PyNone THEN PyNone
    ELSE IF date_num.t \in {"int", "bool"} /\ ValidDate(d.year, d.month, date_num.n)
    THEN PyStr(IsoFormat(d.year, d.month, date_num.n))
    ELSE PyNone

\* one entry of dates: the ISO date of a day-number header cell, or PyNone
HeaderDate(d, date_num) ==
    IF date_num = PyNone THEN PyNone
    ELSE LET r == IF date_num.t \in {"int", "bool"}
                  THEN [ok |-> TRUE, v |-> date_num.n]
                  ELSE IntOfStr(Strip(PyStrOf(date_num)))
         IN  IF r.ok /\ ValidDate(d.year, d.month, r.v)
             THEN PyStr(IsoFormat(d.year, d.month, r.v))
             ELSE PyNone

\* the list dates without the None placeholders: later columns shift to the left
HeaderDatesMutant(d, date_numbers) ==
    LET all == [j \in 1..Len(date_numbers) |-> HeaderDate(d, date_numbers[j])]
    IN  SelectSeq(all, LAMBDA x : x # PyNone)

\* the list dates: one entry per column of C5:AD5, PyNone where there is no date
HeaderDates(d, date_numbers) ==
    [j \in 1..Len(date_numbers) |-> HeaderDate(d, date_numbers[j])]

\* the header row read one column further, through AE
DateNumbersMutant(name) == ReadRange(name, <<"C", "5">>, <<"A", "E", "5">>)[1]

\* date_numbers: the first row of read_range(sheet_name, "C5", "AD5")
DateNumbers(name) == ReadRange(name, <<"C", "5">>, <<"A", "D", "5">>)[1]

\* building_name and "OTROS APARTAMENTOS" in str(building_name)
IsOtros(building_name) ==
    Truthy(building_name) /\ Contains(PyStrOf(building_name), OTROS_APARTAMENTOS)

\* the split at the first '-' (find for rfind)
SplitApartmentMutant(apt_info) ==
    LET first == CHOOSE i \in 1..Len(apt_info.s) :
                    apt_info.s[i] = "-" /\ \A k \in 1..(i - 1) : apt_info.s[k] # "-"
    IN  IF \E i \in 1..Len(apt_info.s) : apt_info.s[i] = "-"
        THEN [code |-> PyStr(Strip(Slice(apt_info.s, 0, first - 1))),
              owner |-> PyStr(Strip(Slice(apt_info.s, first, Len(apt_info.s))))]
        ELSE [code |-> apt_info, owner |-> PyStr(<<>>)]

\* code and owner of an apartment cell holding text
SplitApartment(apt_info) ==
    IF \E i \in 1..Len(apt_info.s) : apt_info.s[i] = "-"
    THEN LET last_separator == RFind(apt_info.s, "-")
         IN  [code |-> PyStr(Strip(Slice(apt_info.s, 0, last_separator))),
              owner |-> PyStr(Strip(Slice(apt_info.s, last_separator + 1, Len(apt_info.s))))]
    ELSE [code |-> apt_info, owner |-> PyStr(<<>>)]

\* the reservations built by prepending: the last column comes first
ReservationsReversed(row_num, dates) ==
    LET cols == SelectSeq([j \in 1..Len(dates) |-> j],
                          LAMBDA j : dates[j] # PyNone /\ Cell(row_num, j + 2) # PyNone)
    IN  [k \in 1..Len(cols) |->
            [date |-> dates[cols[Len(cols) + 1 - k]].s,
             rate |-> PyStr(PyStrOf(Cell(row_num, cols[Len(cols) + 1 - k] + 2))),
             color |-> GetCellColor(Fill(row_num, cols[Len(cols) + 1 - k] + 2)),
             comment |-> Comment(row_num, cols[Len(cols) + 1 - k] + 2)]]

\* the reservations without the test for an empty cell: one per dated column
ReservationsMutant(row_num, dates) ==
    LET cols == SelectSeq([j \in 1..Len(dates) |-> j], LAMBDA j : dates[j] # PyNone)
    IN  [k \in 1..Len(cols) |->
            [date |-> dates[cols[k]].s,
             rate |-> PyStr(PyStrOf(Cell(row_num, cols[k] + 2))),
             color |-> GetCellColor(Fill(row_num, cols[k] + 2)),
             comment |-> Comment(row_num, cols[k] + 2)]]

\* the reservations of one apartment row: one per dated column with a value
Reservations(row_num, dates) ==
    LET cols == SelectSeq([j \in 1..Len(dates) |-> j],
                          LAMBDA j : dates[j] # PyNone /\ Cell(row_num, j + 2) # PyNone)
    IN  [k \in 1..Len(cols) |->
            [date |-> dates[cols[k]].s,
             rate |-> PyStr(PyStrOf(Cell(row_num, cols[k] + 2))),
             color |-> GetCellColor(Fill(row_num, cols[k] + 2)),
             comment |-> Comment(row_num, cols[k] + 2)]]

\* '-' in apt_info raises TypeError unless apt_info is text
ApartmentRaises(building_name, row_num) ==
    /\ Cell(row_num, 2) # PyNone
    /\ ~ IsOtros(building_name)
    /\ Cell(row_num, 2).t # "str"

Apartment(building_name, row_num, dates) ==
    LET apt_info == Cell(row_num, 2)
        id == IF IsOtros(building_name)
              THEN [code |-> PyNone, owner |-> apt_info]
              ELSE SplitApartment(apt_info)
    IN  [code |-> id.code, owner |-> id.owner, raw_text |-> apt_info,
         reservations |-> Reservations(row_num, dates)]

\* parse_building_table without the skip of a row whose column B is empty
ParseBuildingTableMutant(name, building_start_row) ==
    IF workbook # "loaded" THEN Return(EmptyDict)
    ELSE IF name \notin SheetNames THEN Return(EmptyDict)
    ELSE LET building_name == Cell(building_start_row, 2)
             num_apartments == NumApartments(building_start_row)
             d == ParseSheetDate(name)
             dates == HeaderDates(d, DateNumbers(name))
             start_row == building_start_row + 2
             rows == [i \in 1..num_apartments |-> start_row + i - 1]
         IN  IF IsExcluded(building_name) THEN Return(EmptyDict)
             ELSE IF ~ d.some THEN Return(EmptyDict)
             ELSE IF \E k \in 1..Len(rows) : ApartmentRaises(building_name, rows[k])
                  THEN Raise("TypeError")
             ELSE Return([empty |-> FALSE,
                          name |-> building_name,
                          month |-> d.month,
                          year |-> d.year,
                          apartments |->
                              [k \in 1..Len(rows) |-> Apartment(building_name, rows[k], dates)]])

\* parse_building_table: {} as EmptyDict, the building dict, or the exception raised
ParseBuildingTable(name, building_start_row) ==
    IF workbook # "loaded" THEN Return(EmptyDict)
    ELSE IF name \notin SheetNames THEN Return(EmptyDict)
    ELSE LET building_name == Cell(building_start_row, 2)
             num_apartments == NumApartments(building_start_row)
             d == ParseSheetDate(name)
             dates == HeaderDates(d, DateNumbers(name))
             start_row == building_start_row + 2
             rows == SelectSeq([i \in 1..num_apartments |-> start_row + i - 1],
                               LAMBDA r : Cell(r, 2) # PyNone)
         IN  IF IsExcluded(building_name) THEN Return(EmptyDict)
             ELSE IF ~ d.some THEN Return(EmptyDict)
             ELSE IF \E k \in 1..Len(rows) : ApartmentRaises(building_name, rows[k])
                  THEN Raise("TypeError")
             ELSE Return([empty |-> FALSE,
                          name |-> building_name,
                          month |-> d.month,
                          year |-> d.year,
                          apartments |->
                              [k \in 1..Len(rows) |-> Apartment(building_name, rows[k], dates)]])

-----------------------------------------------------------------------------
(* parse_sheet *)

\* the loop over building_rows: the first exception ends it
RECURSIVE ParseTables(_, _, _, _)
ParseTables(name, building_rows, i, buildings) ==
    IF i > Len(building_rows) THEN Return(buildings)
    ELSE LET building_data == ParseBuildingTable(name, building_rows[i])
         IN  IF building_data.kind = "raise" THEN building_data
             ELSE ParseTables(name, building_rows, i + 1,
                              IF building_data.val.empty THEN buildings
                              ELSE Append(buildings, building_data.val))

\* parse_sheet with the list buildings kept on the parser between calls: a second call
\* appends to the buildings of the first
ParseSheetMutant(name) ==
    IF workbook # "loaded" THEN Return(EmptyDict)
    ELSE LET d == ParseSheetDate(name)
             building_rows == FindBuildingRows(name)
             kept == IF ret.op = "parse_sheet" /\ ret.out.kind = "return" /\ ~ ret.out.val.empty
                     THEN ret.out.val.buildings ELSE <<>>
         IN  IF ~ d.some THEN Return(EmptyDict)
             ELSE IF building_rows = <<>> THEN Return(EmptyDict)
             ELSE LET r == ParseTables(name, building_rows, 1, kept)
                  IN  IF r.kind = "raise" THEN r
                      ELSE Return([empty |-> FALSE, month |-> d.month, year |-> d.year,
                                   buildings |-> r.val])

\* parse_sheet: {} as EmptyDict, the document, or the exception of a table
ParseSheet(name) ==
    IF workbook # "loaded" THEN Return(EmptyDict)
    ELSE LET d == ParseSheetDate(name)
             building_rows == FindBuildingRows(name)
         IN  IF ~ d.some THEN Return(EmptyDict)
             ELSE IF building_rows = <<>> THEN Return(EmptyDict)
             ELSE LET r == ParseTables(name, building_rows, 1, <<>>)
                  IN  IF r.kind = "raise" THEN r
                      ELSE Return([empty |-> FALSE, month |-> d.month, year |-> d.year,
                                   buildings |-> r.val])

-----------------------------------------------------------------------------
(* the workbook files the parser is run on *)

\* bounds of the families of files
MaxNameTokens == 3
MaxCols == 2
MaxApts == 2
MaxBuildings == 2
MaxRows == 4

sAbr2025 == <<"A", "b", "r", ".", " ", "2", "0", "2", "5">>
sDic2025 == <<"D", "i", "c", ".", " ", "2", "0", "2", "5">>
sDiciembre2025 ==
    <<"D", "i", "c", "i", "e", "m", "b", "r", "e", " ", "2", "0", "2", "5">>

\* a sheet name that is never in the workbook
AbsentName == <<"O", "c", "t", ".", " ", "7">>

sLimpiezas == <<"L", "I", "M", "P", "I", "E", "Z", "A", "S">>

\* cells from a set of <<row, col, value>>; an empty cell has no entry
MkCells(triples) ==
    LET nz == {e \in triples : e[3] # PyNone}
    IN  [p \in {<<e[1], e[2]>> : e \in nz} |->
            (CHOOSE e \in nz : e[1] = p[1] /\ e[2] = p[2])[3]]

\* a row's calendar cells from a sequence of values, the first in column C
RowCells(r, vals) == {<<r, 2 + j, vals[j]>> : j \in 1..Len(vals)}

\* a row's columns A and B
RowAB(r, a, b) == {<<r, 1, a>>, <<r, 2, b>>}

NoNotes == [p \in {} |-> <<>>]

NoFills == [p \in {} |-> DefaultFill]

\* a file whose cells all have the default fill
File(name, triples, comments) ==
    [name |-> name, cells |-> MkCells(triples), notes |-> comments, fills |-> NoFills]

\* a file with filled cells
FilledFile(name, triples, comments, cell_fills) ==
    [name |-> name, cells |-> MkCells(triples), notes |-> comments, fills |-> cell_fills]

\* one building table whose start row is r: count, name, marker row, apartment rows
\* (apts: the column-B values; each apartment row has a value in column C)
TableRows(r, count, bname, apts) ==
    RowAB(r, count, bname) \cup RowAB(r + 1, PyStr(HEADER_MARKER), PyNone)
        \cup UNION {RowAB(r + 1 + i, PyInt(i), apts[i]) \cup RowCells(r + 1 + i, <<PyInt(100 * i)>>)
                    : i \in 1..Len(apts)}

HeaderRow(vals) == RowCells(5, vals)

sApt1 == <<"1", "-", "A">>
sApt2 == <<"1", " ", "-", " ", "A", " ", "-", " ", "b">>

(* sheet names: 1..MaxNameTokens tokens joined by single spaces *)
NameTokens ==
    {SPANISH_MONTHS[m] : m \in 1..12}
        \cup { <<>>, <<"2", "0", "2", "5">>, <<"2", "0", "x", "5">>, <<"a", "b", "r", ".">>,
               <<"A", "b", "r">>, <<"D", "i", "c", "i", "e", "m", "b", "r", "e">>,
               <<"-", "5">>, <<"2", "_", "0">>, <<"_", "5">> }

RECURSIVE JoinTokens(_)
JoinTokens(ts) ==
    IF Len(ts) = 1 THEN ts[1] ELSE ts[1] \o <<" ">> \o JoinTokens(Tail(ts))

SheetNameFamily ==
    {JoinTokens(ts) : ts \in UNION {[1..k -> NameTokens] : k \in 1..2}}
        \cup {JoinTokens(<<SPANISH_MONTHS[4]>> \o ts) :
                ts \in UNION {[1..k -> NameTokens \ {SPANISH_MONTHS[m] : m \in 2..12}]
                              : k \in 2..(MaxNameTokens - 1)}}

DateFiles ==
    {File(n, HeaderRow(<<PyInt(1)>>) \cup TableRows(6, PyInt(1), PyStr(<<"X">>), <<PyStr(sApt1)>>),
          NoNotes) : n \in SheetNameFamily}

(* the day-number header row *)
DayPalette ==
    {PyNone, PyInt(1), PyInt(31), PyInt(0), PyStr(<<"1">>), PyStr(<<"3", "1">>),
     PyStr(<<" ", "1">>), PyStr(<<"x">>), PyFloat(20)}

\* day numbers for a month of 31 days
LongMonthDays == {PyInt(1), PyInt(31), PyStr(<<"3", "1">>)}

HeaderFiles ==
    {File(x[1],
          HeaderRow(x[2]) \cup RowAB(6, PyInt(2), PyStr(<<"X">>))
              \cup RowAB(7, PyStr(HEADER_MARKER), PyNone)
              \cup RowAB(8, PyInt(1), PyStr(sApt1))
              \cup RowCells(8, [j \in 1..MaxCols |-> PyInt(100 + j)])
              \cup RowAB(9, PyInt(2), PyStr(sApt2))
              \cup RowCells(9, [j \in 1..MaxCols |->
                                  IF j = 1 THEN PyNone
                                  ELSE IF j = 2 THEN PyFloat(1205)
                                  ELSE IF j = 3 THEN PyBool(FALSE) ELSE PyInt(200 + j)]),
          [p \in {<<9, 4>>} |-> <<"c">>])
       : x \in ({sAbr2025} \X [1..MaxCols -> DayPalette])
                  \cup ({sDic2025} \X [1..MaxCols -> LongMonthDays])}

(* the start row of a table: building name and declared count *)
BuildingNames ==
    {PyNone, PyStr(<<>>), PyStr(<<"X">>), PyInt(5), PyStr(sLimpiezas),
     PyStr(EXCLUDED_BUILDINGS[1]),
     PyStr(<<"X", " ">> \o EXCLUDED_BUILDINGS[1] \o <<" ", "2">>),
     PyStr(OTROS_APARTAMENTOS),
     PyStr(OTROS_APARTAMENTOS \o <<" ", "2">>)}

CountValues ==
    {PyNone, PyInt(1), PyInt(2), PyInt(0), PyInt(-1), PyFloat(15), PyBool(TRUE),
     PyStr(<<"2">>), PyStr(<<"x">>)}

StartRowFiles ==
    {File(n,
          HeaderRow(<<PyInt(1), PyInt(2)>>)
              \cup TableRows(6, x[1], x[2], <<PyStr(sApt1), PyStr(sApt2)>>),
          NoNotes)
       : n \in {sAbr2025, sDiciembre2025},
         x \in (CountValues \X {PyStr(<<"X">>), PyStr(EXCLUDED_BUILDINGS[1])})
                  \cup ({PyInt(2)} \X BuildingNames)}

(* the apartment cells of a table *)
AptValues ==
    {PyNone, PyStr(sApt1), PyStr(sApt2), PyStr(<<"1", "A">>), PyStr(<<" ", "-", "a", " ">>),
     PyStr(<<>>), PyInt(101)}

ApartmentFiles ==
    {File(sAbr2025,
          HeaderRow(<<PyInt(1), PyInt(2)>>) \cup TableRows(6, PyInt(MaxApts), b, a),
          NoNotes)
       : b \in {PyStr(<<"X">>), PyStr(OTROS_APARTAMENTOS \o <<" ", "2">>)},
         a \in [1..MaxApts -> AptValues]}

(* a table without a readable count: column A of the rows below the marker row *)
FallbackFiles ==
    {File(sAbr2025,
          HeaderRow(<<PyInt(1)>>) \cup RowAB(6, c, PyStr(<<"X">>))
              \cup RowAB(7, PyStr(HEADER_MARKER), PyNone)
              \cup UNION {RowAB(7 + i, a[i], PyStr(<<Digits[i + 1], "-", "A">>))
                              \cup RowCells(7 + i, <<PyInt(100 + i)>>)
                          : i \in 1..(MaxApts + 1)},
          NoNotes)
       : c \in {PyNone, PyStr(<<"x">>)},
         a \in [1..(MaxApts + 1) -> {PyNone, PyInt(1)}]}

(* a month laid out over the whole span C..AD and one column beyond it, AE *)
SpanWidth == ColumnIndex(<<"A", "D">>) - ColumnIndex(<<"C">>) + 1

WideFiles ==
    {File(n,
          HeaderRow([j \in 1..SpanWidth |-> PyInt(j)] \o <<h>>)
              \cup RowAB(6, PyInt(1), PyStr(<<"X">>))
              \cup RowAB(7, PyStr(HEADER_MARKER), PyNone)
              \cup RowAB(8, PyInt(1), PyStr(sApt1))
              \cup RowCells(8, [j \in 1..SpanWidth |->
                                  IF full \/ j = SpanWidth THEN PyInt(100 + j) ELSE PyNone]
                                  \o <<r>>),
          NoNotes)
       : n \in {sAbr2025, sDic2025}, h \in {PyNone, PyInt(29)}, r \in {PyNone, PyInt(77)},
         full \in BOOLEAN}

(* several tables, one below the other *)
BlockPalette ==
    {[count |-> PyInt(1), bname |-> PyStr(<<"X">>), apts |-> <<PyStr(sApt1)>>],
     [count |-> PyInt(1), bname |-> PyStr(<<"Y">>), apts |-> <<PyInt(101)>>],
     [count |-> PyInt(1), bname |-> PyStr(EXCLUDED_BUILDINGS[1]), apts |-> <<PyStr(sApt1)>>],
     [count |-> PyInt(1), bname |-> PyStr(OTROS_APARTAMENTOS), apts |-> <<PyInt(101)>>],
     [count |-> PyInt(0), bname |-> PyStr(<<"Z">>), apts |-> <<>>],
     [count |-> PyInt(2), bname |-> PyStr(<<"W">>), apts |-> <<PyStr(sApt2)>>]}

RECURSIVE BlockRows(_, _)
BlockRows(r, blocks) ==
    IF blocks = <<>> THEN {}
    ELSE TableRows(r, blocks[1].count, blocks[1].bname, blocks[1].apts)
            \cup BlockRows(r + 2 + Len(blocks[1].apts), Tail(blocks))

BlockFiles ==
    {File(sAbr2025, HeaderRow(<<PyInt(1), PyInt(2)>>) \cup BlockRows(6, bs), NoNotes)
       : bs \in UNION {[1..k -> BlockPalette] : k \in 1..MaxBuildings}}

(* columns A and B of the scanned rows *)
RowPalette ==
    {<<PyNone, PyNone>>, <<PyStr(HEADER_MARKER), PyNone>>,
     <<PyInt(1), PyStr(sApt1)>>, <<PyInt(2), PyStr(<<"X">>)>>, <<PyInt(2), PyNone>>,
     <<PyInt(0), PyStr(<<"X">>)>>, <<PyInt(-1), PyStr(<<"X">>)>>,
     <<PyFloat(15), PyStr(<<"X">>)>>, <<PyStr(<<" ", "2">>), PyStr(<<"X">>)>>}

LocateFiles ==
    {File(sAbr2025,
          HeaderRow(<<PyInt(1)>>)
              \cup UNION {RowAB(5 + i, rs[i][1], rs[i][2]) \cup RowCells(5 + i, <<PyInt(100 + i)>>)
                          : i \in 1..MaxRows},
          NoNotes)
       : rs \in [1..MaxRows -> RowPalette]}

(* the fills of the calendar cells *)
hFF6B6B == <<"F", "F", "6", "B", "6", "B">>
hff6b6b == <<"f", "f", "6", "b", "6", "b">>
h2F75B5 == <<"2", "F", "7", "5", "B", "5">>
h123456 == <<"1", "2", "3", "4", "5", "6">>

\* a solid fill whose start colour is the text argb: index and rgb are that text
RgbFill(argb) == [fill_type |-> "solid", index |-> PyStr(argb), rgb |-> PyStr(argb)]

\* a solid fill whose start colour is no colour text: index is a theme or palette
\* number (or whatever else start_color.index gives); rgb is what reading
\* start_color.rgb gives: a text, or PyNone for anything else
ThemeFill(k, rgb) == [fill_type |-> "solid", index |-> k, rgb |-> rgb]

FillPalette ==
    {DefaultFill,
     [fill_type |-> "none", index |-> PyStr(<<"F", "F">> \o hFF6B6B),
      rgb |-> PyStr(<<"F", "F">> \o hFF6B6B)],
     RgbFill(<<"F", "F">> \o hFF6B6B),
     RgbFill(<<"F", "F">> \o hff6b6b),
     RgbFill(<<"f", "f">> \o hFF6B6B),
     RgbFill(<<"0", "0">> \o hFF6B6B),
     RgbFill(<<"F", "F">> \o h2F75B5),
     RgbFill(<<"F", "F">> \o h123456),
     ThemeFill(PyInt(5), PyNone),
     ThemeFill(PyInt(5), PyStr(<<"F", "F">> \o hFF6B6B)),
     ThemeFill(PyInt(5), PyStr(<<"F", "F">> \o h123456)),
     ThemeFill(PyInt(4), PyNone),
     ThemeFill(PyInt(8), PyNone),
     ThemeFill(PyInt(3), PyNone),
     ThemeFill(PyBool(TRUE), PyNone),
     ThemeFill(PyStr(<<"0", "0">> \o hFF6B6B), PyNone),
     ThemeFill(PyNone, PyNone)}

\* one table with one apartment; its cells of columns C and D hold a rate and a fill
ColorFiles ==
    {FilledFile(sAbr2025,
                HeaderRow(<<PyInt(1), PyInt(2)>>) \cup RowAB(6, PyInt(1), PyStr(<<"X">>))
                    \cup RowAB(7, PyStr(HEADER_MARKER), PyNone)
                    \cup RowAB(8, PyInt(1), PyStr(sApt1))
                    \cup RowCells(8, <<PyInt(101), PyInt(102)>>),
                NoNotes,
                [p \in {<<8, 3>>, <<8, 4>>} |-> IF p[2] = 3 THEN f[1] ELSE f[2]])
       : f \in FillPalette \X FillPalette}

-----------------------------------------------------------------------------
(* the state machine: a parser object on one workbook file *)

NoCall == [op |-> "none", name |-> <<>>, row |-> 0, col |-> 0, out |-> Return(PyNone)]

\* nothing but the parser is running
Idle == <<>>

NoCallers ==
    /\ parsers = Idle /\ db = Idle /\ jobs = Idle
    /\ ongoing_imports = Idle /\ comms = Idle /\ sel = Idle

InitOn(files) ==
    /\ \E f \in files :
          sheetName = f.name /\ cells = f.cells /\ notes = f.notes /\ fills = f.fills
    /\ workbook = "none"
    /\ ret = NoCall
    /\ previous = NoCall
    /\ NoCallers

Init ==
    InitOn(HeaderFiles \cup StartRowFiles \cup ApartmentFiles \cup FallbackFiles \cup BlockFiles
               \cup WideFiles)

InitDate == InitOn(DateFiles)

InitLocate == InitOn(LocateFiles)

InitColor == InitOn(ColorFiles)

\* the sheet names the methods are called with
CallNames == {sheetName, AbsentName}

\* the rows parse_building_table is called with
CallRows == {p[1] : p \in DOMAIN cells} \ (1..(SCAN_FIRST - 1))

\* the cells _get_cell_color is called with: the calendar cells that hold a value
CallCells == {p \in DOMAIN cells : p[1] >= SCAN_FIRST /\ p[2] >= 3}

\* load_workbook: both views are loaded, or the exception is caught and False returned
LoadWorkbook ==
    \E ok \in BOOLEAN :
        /\ workbook' = IF ok THEN "loaded" ELSE workbook
        /\ ret' = [op |-> "load_workbook", name |-> <<>>, row |-> 0, col |-> 0,
                   out |-> Return(ok)]
        /\ previous' = NoCall
        /\ UNCHANGED <<sheetName, cells, notes, fills>>
        /\ UNCHANGED callerVars

CallParseSheetDate ==
    \E n \in CallNames :
        /\ ret' = [op |-> "parse_sheet_date", name |-> n, row |-> 0, col |-> 0,
                   out |-> Return(ParseSheetDate(n))]
        /\ previous' = NoCall
        /\ UNCHANGED <<sheetName, cells, notes, fills, workbook>>
        /\ UNCHANGED callerVars

CallFindBuildingRows ==
    \E n \in CallNames :
        /\ ret' = [op |-> "find_building_rows", name |-> n, row |-> 0, col |-> 0,
                   out |-> Return(FindBuildingRows(n))]
        /\ previous' = NoCall
        /\ UNCHANGED <<sheetName, cells, notes, fills, workbook>>
        /\ UNCHANGED callerVars

CallParseBuildingTable ==
    \E n \in CallNames, r \in CallRows :
        /\ ret' = [op |-> "parse_building_table", name |-> n, row |-> r, col |-> 0,
                   out |-> ParseBuildingTable(n, r)]
        /\ previous' = NoCall
        /\ UNCHANGED <<sheetName, cells, notes, fills, workbook>>
        /\ UNCHANGED callerVars

CallParseSheet ==
    \E n \in CallNames :
        /\ ret' = [op |-> "parse_sheet", name |-> n, row |-> 0, col |-> 0, out |-> ParseSheet(n)]
        /\ previous' = IF ret.op = "parse_sheet" THEN ret ELSE NoCall
        /\ UNCHANGED <<sheetName, cells, notes, fills, workbook>>
        /\ UNCHANGED callerVars

\* _get_cell_color on a calendar cell of the view that keeps the comments
CallGetCellColor ==
    /\ workbook = "loaded"
    /\ \E p \in CallCells :
          ret' = [op |-> "_get_cell_color", name |-> sheetName, row |-> p[1], col |-> p[2],
                  out |-> Return(GetCellColor(Fill(p[1], p[2])))]
    /\ previous' = NoCall
    /\ UNCHANGED <<sheetName, cells, notes, fills, workbook>>
    /\ UNCHANGED callerVars

Next ==
    \/ LoadWorkbook
    \/ CallParseSheetDate
    \/ CallFindBuildingRows
    \/ CallParseBuildingTable
    \/ CallParseSheet
    \/ CallGetCellColor

Spec == Init /\ [][Next]_vars

SpecDate == InitDate /\ [][Next]_vars

SpecLocate == InitLocate /\ [][Next]_vars

SpecColor == InitColor /\ [][Next]_vars

-----------------------------------------------------------------------------
(* two parser objects at work at once, each in its own call of parse_sheet *)

(* Both objects are constructed on the same file.  The file is what sheetName, cells,  *)
(* notes and fills hold and it is only read; workbook is "loaded" throughout and stands *)
(* for the views a loaded handle gives.  Whether parser i has loaded its own handle is  *)
(* parsers[i].workbook, and the locals of its call of parse_sheet are the other fields. *)
ParserIds == {1, 2}

\* __init__: self.workbook = None
NewParser ==
    [workbook |-> "none", pc |-> "idle", name |-> <<>>, building_rows |-> <<>>, k |-> 0,
     buildings |-> <<>>, out |-> Return(PyNone)]

InitTwo ==
    /\ \E f \in BlockFiles \cup ApartmentFiles :
          sheetName = f.name /\ cells = f.cells /\ notes = f.notes /\ fills = f.fills
    /\ workbook = "loaded"
    /\ ret = NoCall
    /\ previous = NoCall
    /\ parsers = [i \in ParserIds |-> NewParser]
    /\ db = Idle /\ jobs = Idle /\ ongoing_imports = Idle /\ comms = Idle /\ sel = Idle

\* a list buildings that the parser objects share: every object sees the append
AppendShared(ps, i, building_data) ==
    [j \in DOMAIN ps |-> [ps[j] EXCEPT !.buildings = Append(@, building_data)]]

\* buildings.append(building_data) on the local list of the call of parser i
AppendBuilding(ps, i, building_data) ==
    [ps EXCEPT ![i].buildings = Append(@, building_data)]

TwoUnchanged == UNCHANGED <<parserVars, db, jobs, ongoing_imports, comms, sel>>

\* load_workbook of parser i
TwoLoadWorkbook(i) ==
    /\ parsers[i].pc = "idle"
    /\ \E ok \in BOOLEAN :
          parsers' = [parsers EXCEPT ![i].workbook = IF ok THEN "loaded" ELSE @]
    /\ TwoUnchanged

\* parse_sheet(sheet_name) is entered on parser i
TwoEnter(i) ==
    /\ parsers[i].pc = "idle"
    /\ \E n \in CallNames :
          parsers' = [parsers EXCEPT ![i].pc = "date", ![i].name = n]
    /\ TwoUnchanged

\* if not self.workbook: return {}; then parse_sheet_date and its test
TwoDate(i) ==
    /\ parsers[i].pc = "date"
    /\ parsers' =
          IF parsers[i].workbook # "loaded" \/ ~ ParseSheetDate(parsers[i].name).some
          THEN [parsers EXCEPT ![i].pc = "done", ![i].out = Return(EmptyDict)]
          ELSE [parsers EXCEPT ![i].pc = "rows"]
    /\ TwoUnchanged

\* building_rows = self.find_building_rows(sheet_name); buildings = []
TwoFind(i) ==
    /\ parsers[i].pc = "rows"
    /\ LET building_rows == FindBuildingRows(parsers[i].name)
       IN  parsers' =
             IF building_rows = <<>>
             THEN [parsers EXCEPT ![i].pc = "done", ![i].out = Return(EmptyDict)]
             ELSE [parsers EXCEPT ![i].pc = "tables", ![i].building_rows = building_rows,
                                  ![i].k = 1, ![i].buildings = <<>>]
    /\ TwoUnchanged

\* one turn of the loop over building_rows
TwoTable(i) ==
    /\ parsers[i].pc = "tables"
    /\ parsers[i].k <= Len(parsers[i].building_rows)
    /\ LET building_data == ParseBuildingTable(parsers[i].name,
                                               parsers[i].building_rows[parsers[i].k])
       IN  parsers' =
             IF building_data.kind = "raise"
             THEN [parsers EXCEPT ![i].pc = "done", ![i].out = building_data]
             ELSE IF building_data.val.empty
             THEN [parsers EXCEPT ![i].k = @ + 1]
             ELSE [AppendBuilding(parsers, i, building_data.val) EXCEPT ![i].k = @ + 1]
    /\ TwoUnchanged

\* sheet_data is built and returned
TwoReturn(i) ==
    /\ parsers[i].pc = "tables"
    /\ parsers[i].k > Len(parsers[i].building_rows)
    /\ LET d == ParseSheetDate(parsers[i].name)
       IN  parsers' = [parsers EXCEPT
                         ![i].pc = "done",
                         ![i].out = Return([empty |-> FALSE, month |-> d.month,
                                            year |-> d.year,
                                            buildings |-> parsers[i].buildings])]
    /\ TwoUnchanged

NextTwo ==
    \E i \in ParserIds :
        \/ TwoLoadWorkbook(i)
        \/ TwoEnter(i)
        \/ TwoDate(i)
        \/ TwoFind(i)
        \/ TwoTable(i)
        \/ TwoReturn(i)

SpecTwo == InitTwo /\ [][NextTwo]_vars

-----------------------------------------------------------------------------
(* PostgresImporter: Python helpers *)

RECURSIVE Pow10(_)
Pow10(k) == IF k <= 0 THEN 1 ELSE 10 * Pow10(k - 1)

\* a float as a decimal: mant * 10^(-frac), or one of the special values
Float(special, mant, frac) == [special |-> special, mant |-> mant, frac |-> frac]

\* the one representation of a decimal: no trailing zero in the fraction, frac >= 0
RECURSIVE Normal(_, _)
Normal(mant, frac) ==
    IF mant = 0 THEN Float("", 0, 0)
    ELSE IF frac < 0 THEN Normal(mant * 10, frac + 1)
    ELSE IF frac > 0 /\ mant % 10 = 0 THEN Normal(mant \div 10, frac - 1)
    ELSE Float("", mant, frac)

\* 0.0
ZeroFloat == Float("", 0, 0)

\* the 1-based index of the first character of s that is in cs, 0 when there is none
RECURSIVE FindFirst(_, _, _)
FindFirst(s, cs, i) ==
    IF i > Len(s) THEN 0 ELSE IF s[i] \in cs THEN i ELSE FindFirst(s, cs, i + 1)

\* how many digits a digit part holds (its underscores are not counted)
DigitCount(s) == Cardinality({i \in 1..Len(s) : IsDigitChar(s[i])})

\* float(text): whitespace around, a sign, then inf / infinity / nan in any case or
\* digits with at most one point and an optional exponent; ok = FALSE is ValueError
FloatOfStr(s) ==
    LET b == Strip(s)
        signed == b # <<>> /\ b[1] \in {"+", "-"}
        neg == signed /\ b[1] = "-"
        body == IF signed THEN Tail(b) ELSE b
        epos == FindFirst(body, {"e", "E"}, 1)
        mtext == IF epos = 0 THEN body ELSE SubSeq(body, 1, epos - 1)
        etext == IF epos = 0 THEN <<"0">> ELSE SubSeq(body, epos + 1, Len(body))
        e == IF etext # <<>> /\ ~ IsSpaceChar(etext[1]) /\ ~ IsSpaceChar(etext[Len(etext)])
             THEN IntOfStr(etext) ELSE [ok |-> FALSE, v |-> 0]
        dot == FindFirst(mtext, {"."}, 1)
        itext == IF dot = 0 THEN mtext ELSE SubSeq(mtext, 1, dot - 1)
        ftext == IF dot = 0 THEN <<>> ELSE SubSeq(mtext, dot + 1, Len(mtext))
        ip == IF itext = <<>> THEN [ok |-> TRUE, v |-> 0] ELSE DigitsValue(itext, 1, 0)
        fp == IF ftext = <<>> THEN [ok |-> TRUE, v |-> 0] ELSE DigitsValue(ftext, 1, 0)
        mant == ip.v * Pow10(DigitCount(ftext)) + fp.v
    IN  IF Upper(body) \in {<<"I", "N", "F">>, <<"I", "N", "F", "I", "N", "I", "T", "Y">>}
        THEN [ok |-> TRUE, v |-> Float(IF neg THEN "-inf" ELSE "inf", 0, 0)]
        ELSE IF Upper(body) = <<"N", "A", "N">>
        THEN [ok |-> TRUE, v |-> Float("nan", 0, 0)]
        ELSE IF e.ok /\ ip.ok /\ fp.ok /\ (itext # <<>> \/ ftext # <<>>)
        THEN [ok |-> TRUE,
              v |-> Normal(IF neg THEN 0 - mant ELSE mant, DigitCount(ftext) - e.v)]
        ELSE [ok |-> FALSE, v |-> ZeroFloat]

\* the rate expression with its handler removed: a text float() rejects raises
\* ValueError
ParseRateMutant(rate_str) ==
    IF rate_str.t \notin {"none", "str"} /\ Truthy(rate_str) THEN Raise("AttributeError")
    ELSE IF Truthy(rate_str) /\ rate_str.s # <<"F", "a", "l", "s", "e">>
            /\ Strip(rate_str.s) # <<>>
    THEN LET Converted(f) == IF f.ok THEN Return(f.v) ELSE Raise("ValueError")
         IN  Converted(FloatOfStr(rate_str.s))
    ELSE Return(ZeroFloat)

\* float(rate_str) if rate_str and rate_str != "False" and rate_str.strip() else 0.0,
\* with 0.0 on ValueError and TypeError; .strip() of a truthy value that is no text
\* raises AttributeError, which is not handled
ParseRate(rate_str) ==
    IF rate_str.t \notin {"none", "str"} /\ Truthy(rate_str) THEN Raise("AttributeError")
    ELSE IF Truthy(rate_str) /\ rate_str.s # <<"F", "a", "l", "s", "e">>
            /\ Strip(rate_str.s) # <<>>
    THEN LET Converted(f) == IF f.ok THEN Return(f.v) ELSE Return(ZeroFloat)
         IN  Converted(FloatOfStr(rate_str.s))
    ELSE Return(ZeroFloat)

\* datetime.fromisoformat(text) of a date in the form YYYY-MM-DD
DateOfIso(text) ==
    [y |-> IntOfStr(SubSeq(text, 1, 4)).v, m |-> IntOfStr(SubSeq(text, 6, 7)).v,
     d |-> IntOfStr(SubSeq(text, 9, 10)).v]

\* date + timedelta(days=1)
NextDay(t) ==
    IF t.d < DaysInMonth(t.y, t.m) THEN [t EXCEPT !.d = @ + 1]
    ELSE IF t.m < 12 THEN [y |-> t.y, m |-> t.m + 1, d |-> 1]
    ELSE [y |-> t.y + 1, m |-> 1, d |-> 1]

\* the days from 0001-01-01 to the date, as date.toordinal()
RECURSIVE DaysBeforeMonth(_, _)
DaysBeforeMonth(y, m) == IF m <= 1 THEN 0 ELSE DaysInMonth(y, m - 1) + DaysBeforeMonth(y, m - 1)

Ordinal(t) ==
    LET p == t.y - 1
    IN  p * 365 + (p \div 4) - (p \div 100) + (p \div 400) + DaysBeforeMonth(t.y, t.m) + t.d

-----------------------------------------------------------------------------
(* PostgresImporter: the tables *)

(* The rows the importer writes.  A uuid4() key is the row's position in its table.    *)
(* buildings, owners, guests and payment_sources are not kept as tables: a building is *)
(* known by its name and a guest by the name parsed from the comment.  The columns     *)
(* total_amount, payment_source_id, owner_id, created_at and updated_at are left out.  *)
EmptyDb == [import_logs |-> <<>>, apartments |-> <<>>, bookings |-> <<>>, reservations |-> <<>>]

\* create_import_log: a committed row with status 'in_progress'; its id is returned
CreateImportLog(d, month, year, correlation_id) ==
    [d EXCEPT !.import_logs =
        Append(@, [id |-> Len(@) + 1, month |-> month, year |-> year,
                   status |-> "in_progress", correlation_id |-> correlation_id])]

\* update_import_log
UpdateImportLog(d, import_id, status) ==
    [d EXCEPT !.import_logs =
        [k \in 1..Len(@) |-> IF @[k].id = import_id THEN [@[k] EXCEPT !.status = status]
                             ELSE @[k]]]

\* get_or_create_apartment: the row of (building, raw_text), inserted when missing
HasApartment(d, building_name, raw_text) ==
    \E k \in 1..Len(d.apartments) :
        d.apartments[k].building = building_name /\ d.apartments[k].raw_text = raw_text

ApartmentId(d, building_name, raw_text) ==
    IF HasApartment(d, building_name, raw_text)
    THEN (CHOOSE k \in 1..Len(d.apartments) :
              d.apartments[k].building = building_name /\ d.apartments[k].raw_text = raw_text)
    ELSE Len(d.apartments) + 1

WithApartment(d, building_name, raw_text, code) ==
    IF HasApartment(d, building_name, raw_text) THEN d
    ELSE [d EXCEPT !.apartments =
             Append(@, [id |-> Len(@) + 1, building |-> building_name,
                        raw_text |-> raw_text, code |-> code])]

\* get_existing_booking_by_comment: None without a comment, else the booking_id of a
\* reservation of the apartment with that comment (LIMIT 1: the first such row)
GetExistingBookingByComment(d, apartment_id, comment) ==
    LET hits == {k \in 1..Len(d.reservations) :
                    /\ d.reservations[k].apartment_id = apartment_id
                    /\ d.reservations[k].comment = comment}
    IN  IF ~ Truthy(comment) \/ hits = {} THEN 0
        ELSE d.reservations[CHOOSE k \in hits : \A j \in hits : k <= j].booking_id

\* create_booking: a new row; its id is returned
CreateBooking(d, apartment_id, guest, check_in, check_out) ==
    [d EXCEPT !.bookings =
        Append(@, [id |-> Len(@) + 1, apartment_id |-> apartment_id, guest |-> guest,
                   check_in |-> check_in, check_out |-> check_out,
                   nights |-> Ordinal(DateOfIso(check_out)) - Ordinal(DateOfIso(check_in))])]

\* the update of an existing booking in process_apartment
UpdateBooking(d, booking_id, check_in, check_out) ==
    [d EXCEPT !.bookings =
        [k \in 1..Len(@) |->
            IF @[k].id = booking_id
            THEN [@[k] EXCEPT !.check_in = check_in, !.check_out = check_out,
                              !.nights = Ordinal(DateOfIso(check_out))
                                            - Ordinal(DateOfIso(check_in))]
            ELSE @[k]]]

(* upsert_reservation, statement by statement *)

\* the select: is there a row of (apartment_id, date) among rows
ReservationExists(rows, apartment_id, date) ==
    \E k \in 1..Len(rows) : rows[k].apartment_id = apartment_id /\ rows[k].date = date

\* the update of every row of (apartment_id, date)
UpdateReservation(rows, booking_id, apartment_id, date, rate, color_hex, comment) ==
    [k \in 1..Len(rows) |->
        IF rows[k].apartment_id = apartment_id /\ rows[k].date = date
        THEN [rows[k] EXCEPT !.booking_id = booking_id, !.rate = rate,
                             !.color_hex = color_hex, !.comment = comment]
        ELSE rows[k]]

\* the insert of a new row
InsertReservation(rows, booking_id, apartment_id, date, rate, color_hex, comment) ==
    Append(rows, [id |-> Len(rows) + 1, booking_id |-> booking_id,
                  apartment_id |-> apartment_id, date |-> date, rate |-> rate,
                  color_hex |-> color_hex, comment |-> comment])

\* upsert_reservation on one connection
UpsertReservation(d, booking_id, apartment_id, date, rate, color_hex, comment) ==
    [d EXCEPT !.reservations =
        IF ReservationExists(@, apartment_id, date)
        THEN UpdateReservation(@, booking_id, apartment_id, date, rate, color_hex, comment)
        ELSE InsertReservation(@, booking_id, apartment_id, date, rate, color_hex, comment)]

-----------------------------------------------------------------------------
(* PostgresImporter: process_apartment, process_building, import_sheet_data *)

RECURSIVE LStripTilde(_)
LStripTilde(s) == IF s # <<>> /\ Head(s) = "~" THEN LStripTilde(Tail(s)) ELSE s

\* parse_guest_name: the first line, without leading '~', up to the first '//', stripped
ParseGuestName(comment) ==
    IF ~ Truthy(comment) THEN PyNone
    ELSE LET nl == FindFirst(comment.s, {"\n"}, 1)
             line == IF nl = 0 THEN comment.s ELSE SubSeq(comment.s, 1, nl - 1)
             bare == LStripTilde(line)
             cuts == {i \in 1..(Len(bare) - 1) : bare[i] = "/" /\ bare[i + 1] = "/"}
             part == IF cuts = {} THEN bare
                     ELSE SubSeq(bare, 1, (CHOOSE i \in cuts : \A j \in cuts : i <= j) - 1)
         IN  IF Strip(part) = <<>> THEN PyNone ELSE PyStr(Strip(part))

\* color_data["value"] of a colour dict, None without one
ColorHex(color_data) == IF color_data = PyNone THEN PyNone ELSE color_data.value

\* the keys of reservations_by_comment in the order of their first reservation; a
\* reservation without a date is passed over
RECURSIVE CommentKeys(_, _, _)
CommentKeys(reservations, i, keys) ==
    IF i > Len(reservations) THEN keys
    ELSE IF reservations[i].date = <<>>
            \/ \E k \in 1..Len(keys) : keys[k] = reservations[i].comment
    THEN CommentKeys(reservations, i + 1, keys)
    ELSE CommentKeys(reservations, i + 1, Append(keys, reservations[i].comment))

\* sorted(reservations, key=date): stable; ISO dates of one width sort as their days do
RECURSIVE SortedByDate(_)
SortedByDate(rs) ==
    IF rs = <<>> THEN <<>>
    ELSE LET x == rs[Len(rs)]
             front == SortedByDate(SubSeq(rs, 1, Len(rs) - 1))
             keep == {k \in 1..Len(front) :
                         Ordinal(DateOfIso(front[k].date)) <= Ordinal(DateOfIso(x.date))}
             n == Cardinality(keep)
         IN  SubSeq(front, 1, n) \o <<x>> \o SubSeq(front, n + 1, Len(front))

\* the state of a transaction under way: the rows as the connection sees them, or the
\* exception that ended it
Going(d) == [kind |-> "ok", val |-> "", db |-> d]

Failed(e, d) == [kind |-> "raise", val |-> e, db |-> d]

\* the loop over the sorted reservations of one comment group
RECURSIVE UpsertGroup(_, _, _, _, _, _)
UpsertGroup(t, booking_id, apartment_id, group, comment, i) ==
    IF t.kind = "raise" \/ i > Len(group) THEN t
    ELSE LET Upserted(rate) ==
                 IF rate.kind = "raise" THEN Failed(rate.val, t.db)
                 ELSE UpsertGroup(
                          Going(UpsertReservation(t.db, booking_id, apartment_id,
                                                  group[i].date, rate.val,
                                                  ColorHex(group[i].color), comment)),
                          booking_id, apartment_id, group, comment, i + 1)
         IN  Upserted(ParseRate(group[i].rate))

\* one comment group: its booking is found by comment or created, then its
\* reservations are upserted
ProcessGroup(t, apartment_id, reservations, comment) ==
    LET Booked(group, check_out_date, rate, existing_booking_id) ==
            LET check_in == group[1].date
                check_out == IsoFormat(check_out_date.y, check_out_date.m, check_out_date.d)
                booking_id == IF existing_booking_id # 0 THEN existing_booking_id
                              ELSE Len(t.db.bookings) + 1
                booked == IF existing_booking_id # 0
                          THEN UpdateBooking(t.db, booking_id, check_in, check_out)
                          ELSE CreateBooking(t.db, apartment_id, ParseGuestName(comment),
                                             check_in, check_out)
            IN  IF rate.kind = "raise" THEN Failed(rate.val, t.db)
                ELSE UpsertGroup(Going(booked), booking_id, apartment_id, group, comment, 1)
        Grouped(group) ==
            Booked(group, NextDay(DateOfIso(group[Len(group)].date)),
                   ParseRate(group[1].rate),
                   GetExistingBookingByComment(t.db, apartment_id, comment))
    IN  Grouped(SortedByDate(SelectSeq(reservations,
                                       LAMBDA r : r.date # <<>> /\ r.comment = comment)))

RECURSIVE ProcessGroups(_, _, _, _, _)
ProcessGroups(t, apartment_id, reservations, keys, i) ==
    IF t.kind = "raise" \/ i > Len(keys) THEN t
    ELSE ProcessGroups(ProcessGroup(t, apartment_id, reservations, keys[i]),
                       apartment_id, reservations, keys, i + 1)

\* process_apartment: nothing without raw_text
ProcessApartment(t, building_name, apartment_data) ==
    IF ~ Truthy(apartment_data.raw_text) THEN t
    ELSE LET apartment_id == ApartmentId(t.db, building_name, apartment_data.raw_text)
             with == WithApartment(t.db, building_name, apartment_data.raw_text,
                                   apartment_data.code)
         IN  ProcessGroups(Going(with), apartment_id, apartment_data.reservations,
                           CommentKeys(apartment_data.reservations, 1, <<>>), 1)

RECURSIVE ProcessApartments(_, _, _, _)
ProcessApartments(t, building_name, apartments, i) ==
    IF t.kind = "raise" \/ i > Len(apartments) THEN t
    ELSE ProcessApartments(ProcessApartment(t, building_name, apartments[i]),
                           building_name, apartments, i + 1)

\* process_building over the buildings of a sheet: a building without a name is skipped
RECURSIVE ProcessBuildings(_, _, _)
ProcessBuildings(t, buildings, i) ==
    IF t.kind = "raise" \/ i > Len(buildings) THEN t
    ELSE ProcessBuildings(
             IF ~ Truthy(buildings[i].name) THEN t
             ELSE ProcessApartments(t, buildings[i].name, buildings[i].apartments, 1),
             buildings, i + 1)

\* import_sheet_data: the log is created and committed, the buildings are processed in
\* one transaction (committed whole, or rolled back by the exception), the log is
\* updated; out is the log id returned or the exception raised again
ImportSheetData(d, sheet_data, correlation_id) ==
    IF sheet_data.month = 0 \/ sheet_data.year = 0
    THEN [out |-> Raise("ValueError"), db |-> d]
    ELSE LET logged == CreateImportLog(d, sheet_data.month, sheet_data.year, correlation_id)
             import_id == Len(logged.import_logs)
             Ended(t) ==
                 IF t.kind = "ok"
                 THEN [out |-> Return(import_id),
                       db |-> UpdateImportLog(t.db, import_id, "completed")]
                 ELSE [out |-> Raise(t.val),
                       db |-> UpdateImportLog(logged, import_id, "failed")]
         IN  Ended(ProcessBuildings(Going(logged), sheet_data.buildings, 1))

-----------------------------------------------------------------------------
(* a sheet is parsed and its document imported, possibly more than once *)

MaxImports == 2

\* what calendar cells hold: a number, False, text that is no number, empty text, blanks
RatePalette ==
    {PyNone, PyFloat(1205), PyBool(FALSE), PyStr(<<"x">>), PyStr(<<>>), PyStr(<<" ">>)}

\* one building with one apartment; each calendar cell may carry the comment "c"
RateFiles ==
    {File(sAbr2025,
          HeaderRow([j \in 1..MaxCols |-> PyInt(j)])
              \cup RowAB(6, PyInt(1), PyStr(<<"X">>))
              \cup RowAB(7, PyStr(HEADER_MARKER), PyNone)
              \cup RowAB(8, PyInt(1), PyStr(sApt1))
              \cup RowCells(8, rates),
          [p \in {<<8, 2 + j>> : j \in commented} |-> <<"c">>])
       : rates \in [1..MaxCols -> RatePalette], commented \in SUBSET (1..MaxCols)}

\* no import has been called
NoImport ==
    [op |-> "none", sheet_data |-> EmptyDict, previous_data |-> EmptyDict,
     before |-> EmptyDb, out |-> Return(PyNone)]

InitImport ==
    /\ \E f \in RateFiles :
          sheetName = f.name /\ cells = f.cells /\ notes = f.notes /\ fills = f.fills
    /\ workbook = "none"
    /\ ret = NoCall
    /\ previous = NoCall
    /\ db = EmptyDb
    /\ jobs = NoImport
    /\ parsers = Idle /\ ongoing_imports = Idle /\ comms = Idle /\ sel = Idle

\* import_sheet_data(data) on the document parse_sheet has just returned; jobs keeps
\* the document, the one of the import before, and the rows as they were before
CallImportSheetData ==
    /\ ret.op = "parse_sheet" /\ ret.out.kind = "return" /\ ~ ret.out.val.empty
    /\ Len(db.import_logs) < MaxImports
    /\ \E r \in {ImportSheetData(db, ret.out.val, PyNone)} :
          /\ db' = r.db
          /\ jobs' = [op |-> "import_sheet_data", sheet_data |-> ret.out.val,
                      previous_data |-> jobs.sheet_data, before |-> db, out |-> r.out]
    /\ UNCHANGED <<parserVars, parsers, ongoing_imports, comms, sel>>

NextImport ==
    \/ LoadWorkbook
    \/ CallParseBuildingTable
    \/ CallParseSheet
    \/ CallImportSheetData

SpecImport == InitImport /\ [][NextImport]_vars

-----------------------------------------------------------------------------
(* run_import_job and import_multi_sheet_data *)

MaxSheets == 3

\* the correlation id trigger_import gives the job
JobId == "job"

\* the document parse_sheet returns for a sheet of month m with one reservation
SheetDocument(m) ==
    [empty |-> FALSE, month |-> m, year |-> 2025,
     buildings |->
        <<[empty |-> FALSE, name |-> PyStr(<<"X">>), month |-> m, year |-> 2025,
           apartments |->
              <<[code |-> PyStr(<<"1">>), owner |-> PyStr(<<"A">>), raw_text |-> PyStr(sApt1),
                 reservations |->
                    <<[date |-> IsoFormat(2025, m, 1), rate |-> PyStr(<<"1", "0", "0">>),
                       color |-> PyNone, comment |-> PyStr(<<"c">>)]>>]>>]>>]

\* the sheets of the requested months, in workbook order, each with what parse_sheet
\* gives for it: {}, a document, or the exception of a table
RequestedSheets ==
    UNION {[1..n -> {"empty", "document", "raise"}] : n \in 0..MaxSheets}

ParseOutcome(requested, i) ==
    CASE requested[i] = "empty" -> Return(EmptyDict)
      [] requested[i] = "document" -> Return(SheetDocument(i))
      [] OTHER -> Raise("TypeError")

\* the loop over valid_sheets with an empty document taken for a failure
RECURSIVE CombinedSheetsMutant(_, _, _)
CombinedSheetsMutant(requested, i, sheets) ==
    IF i > Len(requested) THEN Return(sheets)
    ELSE LET sheet_data == ParseOutcome(requested, i)
         IN  IF sheet_data.kind = "raise" THEN sheet_data
             ELSE IF sheet_data.val.empty THEN Raise("Empty")
             ELSE CombinedSheetsMutant(requested, i + 1,
                                       Append(sheets, [name |-> i, data |-> sheet_data.val]))

\* combined_data["sheets"] after the loop over valid_sheets: the documents that are
\* not empty, in order; raised when parse_sheet raised before the loop ended
RECURSIVE CombinedSheets(_, _, _)
CombinedSheets(requested, i, sheets) ==
    IF i > Len(requested) THEN Return(sheets)
    ELSE LET sheet_data == ParseOutcome(requested, i)
         IN  IF sheet_data.kind = "raise" THEN sheet_data
             ELSE CombinedSheets(requested, i + 1,
                                 IF sheet_data.val.empty THEN sheets
                                 ELSE Append(sheets, [name |-> i, data |-> sheet_data.val]))

\* an entry of ongoing_imports
Ongoing(status, import_logs, sheet_count) ==
    [status |-> status, import_logs |-> import_logs, sheet_count |-> sheet_count]

InitJob ==
    /\ \E requested \in RequestedSheets :
          jobs = [pc |-> "parse", requested |-> requested, sheets |-> <<>>, k |-> 0,
                  import_logs |-> <<>>, raised |-> <<>>, before |-> EmptyDb]
    /\ db = EmptyDb
    /\ ongoing_imports = [c \in {JobId} |-> Ongoing("processing", <<>>, 0)]
    /\ sheetName = <<>> /\ cells = MkCells({}) /\ notes = NoNotes /\ fills = NoFills
    /\ workbook = "none" /\ ret = NoCall /\ previous = NoCall
    /\ parsers = Idle /\ comms = Idle /\ sel = Idle

JobUnchanged == UNCHANGED <<parserVars, parsers, comms, sel>>

\* run_import_job up to the call of the importer: the requested sheets are parsed; the
\* job fails when there is none, when a parse raises and when every document is empty
RunImportJobParse ==
    /\ jobs.pc = "parse"
    /\ LET combined == CombinedSheets(jobs.requested, 1, <<>>)
       IN  IF jobs.requested = <<>> \/ combined.kind = "raise" \/ combined.val = <<>>
           THEN /\ ongoing_imports' = [ongoing_imports EXCEPT ![JobId] = Ongoing("failed", <<>>, 0)]
                /\ jobs' = [jobs EXCEPT !.pc = "done"]
           ELSE /\ jobs' = [jobs EXCEPT !.pc = "import", !.sheets = combined.val, !.k = 1]
                /\ UNCHANGED ongoing_imports
    /\ UNCHANGED db
    /\ JobUnchanged

\* the rows kept although the transaction raised
SheetOutcomeMutant(logged, t, import_id, raised) ==
    UpdateImportLog(t.db, import_id, IF raised THEN "failed" ELSE "completed")

\* the end of one sheet in import_multi_sheet_data: the transaction is committed and the
\* log completed, or it is rolled back by the exception and the log marked failed
SheetOutcome(logged, t, import_id, raised) ==
    IF raised THEN UpdateImportLog(logged, import_id, "failed")
    ELSE UpdateImportLog(t.db, import_id, "completed")

\* one turn of the loop of import_multi_sheet_data: the sheet's log, its transaction,
\* the update of the log; the database may refuse a statement of the transaction
ImportSheetStep ==
    /\ jobs.pc = "import"
    /\ jobs.k <= Len(jobs.sheets)
    /\ \E db_error \in BOOLEAN :
          LET sheet_data == jobs.sheets[jobs.k].data
              logged == CreateImportLog(db, sheet_data.month, sheet_data.year, JobId)
              import_id == Len(logged.import_logs)
          IN  \E t \in {ProcessBuildings(Going(logged), sheet_data.buildings, 1)} :
                  LET raised == db_error \/ t.kind = "raise"
                  IN  /\ db' = SheetOutcome(logged, t, import_id, raised)
                      /\ jobs' = [jobs EXCEPT !.k = @ + 1,
                                              !.import_logs = Append(@, import_id),
                                              !.raised = Append(@, raised),
                                              !.before = db]
    /\ UNCHANGED ongoing_imports
    /\ JobUnchanged

\* import_multi_sheet_data returns import_logs and run_import_job records the result
RunImportJobComplete ==
    /\ jobs.pc = "import"
    /\ jobs.k > Len(jobs.sheets)
    /\ ongoing_imports' = [ongoing_imports EXCEPT
                             ![JobId] = Ongoing("completed", jobs.import_logs, Len(jobs.sheets))]
    /\ jobs' = [jobs EXCEPT !.pc = "done"]
    /\ UNCHANGED db
    /\ JobUnchanged

NextJob ==
    \/ RunImportJobParse
    \/ ImportSheetStep
    \/ RunImportJobComplete

SpecJob == InitJob /\ [][NextJob]_vars

-----------------------------------------------------------------------------
(* two import jobs at once: upsert_reservation on two connections *)

(* trigger_import starts every job in a thread of its own, and every job has its own   *)
(* PostgresImporter, engine and transaction.  create_engine is called without an       *)
(* isolation level, so the transactions run READ COMMITTED: a statement sees the       *)
(* committed rows and the rows its own transaction has written.  The writes of a        *)
(* transaction are kept with the job until its commit.                                  *)
MaxUpserts == 2

JobIds == {1, 2}

\* the dates of the reservations the jobs import, all of one apartment
RaceDates == {IsoFormat(2025, 4, 1), IsoFormat(2025, 4, 2)}

\* the apartment the reservations belong to
RaceApartment == 1

\* the rows a statement of job j sees
TxnView(j) == db.reservations \o jobs[j].inserts

InitRace ==
    /\ \E todo \in [JobIds -> UNION {[1..n -> RaceDates] : n \in 1..MaxUpserts}],
          stored \in BOOLEAN :
          /\ jobs = [j \in JobIds |->
                        [pc |-> "select", todo |-> todo[j], i |-> 1, found |-> FALSE,
                         inserts |-> <<>>, updates |-> <<>>]]
          /\ db = [EmptyDb EXCEPT !.reservations =
                      IF stored
                      THEN InsertReservation(<<>>, 0, RaceApartment, IsoFormat(2025, 4, 2),
                                             ZeroFloat, PyNone, PyNone)
                      ELSE <<>>]
    /\ ongoing_imports = [j \in JobIds |-> Ongoing("processing", <<>>, 0)]
    /\ sheetName = <<>> /\ cells = MkCells({}) /\ notes = NoNotes /\ fills = NoFills
    /\ workbook = "none" /\ ret = NoCall /\ previous = NoCall
    /\ parsers = Idle /\ comms = Idle /\ sel = Idle

RaceUnchanged == UNCHANGED <<parserVars, parsers, ongoing_imports, comms, sel>>

\* existing_reservation = conn.execute(query).first()
RaceSelect(j) ==
    /\ jobs[j].pc = "select"
    /\ jobs' = [jobs EXCEPT
                  ![j].found = ReservationExists(TxnView(j), RaceApartment,
                                                 jobs[j].todo[jobs[j].i]),
                  ![j].pc = "write"]
    /\ UNCHANGED db
    /\ RaceUnchanged

\* the update or the insert, as the select decided; then the next reservation, or the
\* end of the transaction block
RaceWrite(j) ==
    /\ jobs[j].pc = "write"
    /\ LET date == jobs[j].todo[jobs[j].i]
           rate == Float("", j, 0)
           next == IF jobs[j].i < Len(jobs[j].todo) THEN "select" ELSE "commit"
       IN  jobs' =
             IF jobs[j].found
             THEN [jobs EXCEPT
                     ![j].inserts = UpdateReservation(@, j, RaceApartment, date, rate,
                                                      PyNone, PyNone),
                     ![j].updates = Append(@, date),
                     ![j].i = @ + 1, ![j].pc = next]
             ELSE [jobs EXCEPT
                     ![j].inserts = InsertReservation(@, j, RaceApartment, date, rate,
                                                      PyNone, PyNone),
                     ![j].i = @ + 1, ![j].pc = next]
    /\ UNCHANGED db
    /\ RaceUnchanged

\* the rows after the updates of job j, one date after the other
RECURSIVE Updated(_, _, _, _)
Updated(rows, j, dates, i) ==
    IF i > Len(dates) THEN rows
    ELSE Updated(UpdateReservation(rows, j, RaceApartment, dates[i], Float("", j, 0),
                                   PyNone, PyNone),
                 j, dates, i + 1)

\* the inserted rows get their place in the table
RECURSIVE Inserted(_, _, _)
Inserted(rows, new, i) ==
    IF i > Len(new) THEN rows
    ELSE Inserted(Append(rows, [new[i] EXCEPT !.id = Len(rows) + 1]), new, i + 1)

\* the `with self.engine.begin()` block ends: the transaction of job j is committed
RaceCommit(j) ==
    /\ jobs[j].pc = "commit"
    /\ db' = [db EXCEPT !.reservations =
                 Inserted(Updated(@, j, jobs[j].updates, 1), jobs[j].inserts, 1)]
    /\ jobs' = [jobs EXCEPT ![j].pc = "done", ![j].inserts = <<>>, ![j].updates = <<>>]
    /\ RaceUnchanged

NextRace ==
    \E j \in JobIds :
        \/ RaceSelect(j)
        \/ RaceWrite(j)
        \/ RaceCommit(j)

SpecRace == InitRace /\ [][NextRace]_vars

-----------------------------------------------------------------------------
(* the sheets of the last N months: parse_excel_file and run_import_job *)

MaxMonths == 3

\* the years datetime.now() falls in, one of them a leap year
NowYears == {2024, 2025}

\* the years the workbook has a sheet for every month of
SheetYears == <<2023, 2024, 2025>>

\* the last day of the month before the month of a date
LastOfPreviousMonth(t) ==
    IF t.m > 1 THEN [y |-> t.y, m |-> t.m - 1, d |-> DaysInMonth(t.y, t.m - 1)]
    ELSE [y |-> t.y - 1, m |-> 12, d |-> 31]

\* date - timedelta(days=k), a month at a time
RECURSIVE MinusDays(_, _)
MinusDays(t, k) ==
    IF k < t.d THEN [t EXCEPT !.d = t.d - k]
    ELSE MinusDays(LastOfPreviousMonth(t), k - t.d)

\* the sheet of a month as the workbook names it, "Abr. 2025"
MonthSheet(m, y) == SPANISH_MONTHS[m] \o <<" ">> \o NatStr(y)

\* a workbook with a sheet for every month of three years and one sheet that is no month,
\* and a workbook with one month only
Workbooks ==
    { [k \in 1..(12 * Len(SheetYears) + 1) |->
          IF k > 12 * Len(SheetYears) THEN sLimpiezas
          ELSE MonthSheet(((k - 1) % 12) + 1, SheetYears[((k - 1) \div 12) + 1])],
      <<sLimpiezas, sAbr2025>> }

\* target_months of parse_excel_file: the month and year of now - 30*i days, i < months_back
TargetMonths(now, months_back) ==
    { [month |-> MinusDays(now, 30 * i).m, year |-> MinusDays(now, 30 * i).y] :
          i \in 0..(months_back - 1) }

\* valid_sheets of parse_excel_file
CliValidSheets(sheet_names, now, months_back) ==
    LET Valid(s) ==
            LET date == ParseSheetDate(s)
            IN  /\ date.some
                /\ [month |-> date.month, year |-> date.year]
                       \in TargetMonths(now, months_back)
    IN  SelectSeq(sheet_names, Valid)

\* valid_sheets of run_import_job
JobValidSheets(sheet_names, now, months) ==
    LET Valid(s) ==
            LET date == ParseSheetDate(s)
                month_diff == (now.y - date.year) * 12 + (now.m - date.month)
            IN  date.some /\ 0 <= month_diff /\ month_diff < months
    IN  SelectSeq(sheet_names, Valid)

NotSelected == [called |-> FALSE, failed |-> FALSE, valid_sheets |-> <<>>]

\* the sheets chosen, or the failure "No sheets found for the last N months"
Selection(valid_sheets) ==
    [called |-> TRUE, failed |-> valid_sheets = <<>>, valid_sheets |-> valid_sheets]

InitSelect ==
    /\ \E y \in NowYears, m \in 1..12, d \in 1..31, n \in 1..MaxMonths, w \in Workbooks :
          /\ ValidDate(y, m, d)
          /\ sel = [now |-> [y |-> y, m |-> m, d |-> d], months |-> n, sheet_names |-> w,
                    cli |-> NotSelected, job |-> NotSelected]
    /\ sheetName = <<>> /\ cells = MkCells({}) /\ notes = NoNotes /\ fills = NoFills
    /\ workbook = "loaded" /\ ret = NoCall /\ previous = NoCall
    /\ parsers = Idle /\ db = Idle /\ jobs = Idle /\ ongoing_imports = Idle /\ comms = Idle

SelectUnchanged == UNCHANGED <<parserVars, parsers, db, jobs, ongoing_imports, comms>>

\* parse_excel_file(excel_path, months_back=N), up to the choice of the sheets
ParseExcelFileSelect ==
    /\ ~ sel.cli.called
    /\ sel' = [sel EXCEPT !.cli = Selection(CliValidSheets(sel.sheet_names, sel.now,
                                                           sel.months))]
    /\ SelectUnchanged

\* run_import_job(correlation_id, file_path, months=N), up to the choice of the sheets
RunImportJobSelect ==
    /\ ~ sel.job.called
    /\ sel' = [sel EXCEPT !.job = Selection(JobValidSheets(sel.sheet_names, sel.now,
                                                           sel.months))]
    /\ SelectUnchanged

NextSelect == ParseExcelFileSelect \/ RunImportJobSelect

SpecSelect == InitSelect /\ [][NextSelect]_vars

-----------------------------------------------------------------------------
(* send_communications: the script, the service and the repository *)

MaxComms == 2

\* Communication.retry_count < 3 in get_approved_communications
MAX_RETRIES == 3

\* a row of the communications table; last_retry_at is "none" until a failure stamps it
CommRows ==
    [status : {"approved", "failed"}, retry_count : {0, MAX_RETRIES},
     last_retry_at : {"none"}, content : {"", "stored"}]

\* the ids of get_approved_communications, in table order
RECURSIVE ApprovedIds(_, _)
ApprovedIds(rows, i) ==
    IF i > Len(rows) THEN <<>>
    ELSE IF rows[i].status = "approved" /\ rows[i].retry_count < MAX_RETRIES
         THEN <<i>> \o ApprovedIds(rows, i + 1)
         ELSE ApprovedIds(rows, i + 1)

\* update_communication_content: the statement, then session.commit()
UpdateCommunicationContent(c, id, html) ==
    LET rows == [c.session EXCEPT ![id].content = html]
    IN  [c EXCEPT !.session = rows, !.stored = rows]

\* mark_communication_sent: the statement, then session.commit()
MarkCommunicationSent(c, id) ==
    LET rows == [c.session EXCEPT ![id].status = "sent"]
    IN  [c EXCEPT !.session = rows, !.stored = rows]

\* mark_communication_failed: the statement, then session.commit()
MarkCommunicationFailed(c, id) ==
    LET rows == [c.session EXCEPT ![id].status = "failed",
                                  ![id].retry_count = @ + 1,
                                  ![id].last_retry_at = "now"]
    IN  [c EXCEPT !.session = rows, !.stored = rows]

\* EmailSender.send_email: nothing leaves without an API key; with one, Resend accepts
\* the message or raises, and the message it accepted is on its way
SendEmail(c, id, accepted) ==
    IF ~ c.api_key THEN [ok |-> FALSE, c |-> c]
    ELSE IF accepted THEN [ok |-> TRUE, c |-> [c EXCEPT !.emails = Append(@, id)]]
    ELSE [ok |-> FALSE, c |-> c]

\* send_communication; has_bookings says whether the communication has bookings that
\* are not excluded, which generate_email_content needs
SendCommunication(c, id, has_bookings, accepted) ==
    IF id \notin 1..Len(c.session) THEN c
    ELSE IF c.session[id].status # "approved" THEN c
    ELSE IF c.session[id].content = "" /\ ~ has_bookings THEN c
    ELSE LET with_content ==
                 IF c.session[id].content = ""
                 THEN UpdateCommunicationContent(c, id, "rendered")
                 ELSE c
             mail == SendEmail(with_content, id, accepted)
         IN  IF mail.ok THEN MarkCommunicationSent(mail.c, id)
             ELSE MarkCommunicationFailed(mail.c, id)

InitComms ==
    /\ \E n \in 0..MaxComms :
          \E rows \in [1..n -> CommRows], dry_run \in BOOLEAN, api_key \in BOOLEAN,
             communication_id \in 0..(n + 1) :
              comms = [dry_run |-> dry_run, api_key |-> api_key,
                       communication_id |-> communication_id, pc |-> "main",
                       queue |-> <<>>, session |-> rows, stored |-> rows,
                       before |-> rows, emails |-> <<>>]
    /\ sheetName = <<>> /\ cells = MkCells({}) /\ notes = NoNotes /\ fills = NoFills
    /\ workbook = "none" /\ ret = NoCall /\ previous = NoCall
    /\ parsers = Idle /\ db = Idle /\ jobs = Idle /\ ongoing_imports = Idle /\ sel = Idle

CommsUnchanged == UNCHANGED <<parserVars, parsers, db, jobs, ongoing_imports, sel>>

\* main up to the first send: sys.exit(1) without an API key unless the run is dry; the
\* communication named by --communication-id (0: none named), or the approved ones
MainBegin ==
    /\ comms.pc = "main"
    /\ comms' =
          IF ~ comms.api_key /\ ~ comms.dry_run THEN [comms EXCEPT !.pc = "exit"]
          ELSE [comms EXCEPT
                  !.pc = "sending",
                  !.queue = IF comms.communication_id # 0 THEN <<comms.communication_id>>
                            ELSE ApprovedIds(comms.session, 1)]
    /\ CommsUnchanged

\* one service.send_communication(id) of the script or of process_approved_communications
MainSend ==
    /\ comms.pc = "sending"
    /\ comms.queue # <<>>
    /\ \E has_bookings \in BOOLEAN, accepted \in BOOLEAN :
          comms' = [SendCommunication(comms, Head(comms.queue), has_bookings, accepted)
                       EXCEPT !.queue = Tail(comms.queue)]
    /\ CommsUnchanged

\* the end of main: session.rollback() in a dry run, session.commit() otherwise
MainEnd ==
    /\ comms.pc = "sending"
    /\ comms.queue = <<>>
    /\ comms' = IF comms.dry_run
                THEN [comms EXCEPT !.pc = "done", !.session = comms.stored]
                ELSE [comms EXCEPT !.pc = "done", !.stored = comms.session]
    /\ CommsUnchanged

NextComms == MainBegin \/ MainSend \/ MainEnd

SpecComms == InitComms /\ [][NextComms]_vars

-----------------------------------------------------------------------------
(* what the claims speak of *)

\* a call of the method on the sheet of the loaded workbook
Called(op) == ret.op = op /\ workbook = "loaded" /\ ret.name = sheetName

\* a call of the method that returned a non-empty dict
Returned(op) == Called(op) /\ ret.out.kind = "return" /\ ~ ret.out.val.empty

\* text that int() reads as an integer: digits, single underscores between them,
\* optionally signed
IsIntegerText(y) ==
    LET d == IF y # <<>> /\ y[1] \in {"+", "-"} THEN Tail(y) ELSE y
    IN  /\ d # <<>>
        /\ \A i \in 1..Len(d) : IsDigitChar(d[i]) \/ d[i] = "_"
        /\ d[1] # "_" /\ d[Len(d)] # "_"
        /\ \A i \in 1..(Len(d) - 1) : ~ (d[i] = "_" /\ d[i + 1] = "_")

\* name is abbreviation m, one space, an integer text
IsMonthYearName(name, m) ==
    \E k \in 1..Len(name) :
        /\ name[k] = " "
        /\ SubSeq(name, 1, k - 1) = SPANISH_MONTHS[m]
        /\ IsIntegerText(SubSeq(name, k + 1, Len(name)))

\* the text after the first space of name
YearText(name) ==
    LET k == CHOOSE i \in 1..Len(name) : name[i] = " " /\ \A h \in 1..(i - 1) : name[h] # " "
    IN  SubSeq(name, k + 1, Len(name))

\* name has sub as a substring
HasSubstring(name, sub) ==
    \E i \in 1..(Len(name) + 1), j \in 0..Len(name) : SubSeq(name, i, j) = sub

\* the value is text holding the name of an excluded building
NamesExcludedBuilding(v) ==
    v.t = "str" /\ \E k \in 1..Len(EXCLUDED_BUILDINGS) : HasSubstring(v.s, EXCLUDED_BUILDINGS[k])

\* a value that is a positive integer, or text that reads as one
IsPositiveIntegerValue(a) ==
    \/ a.t = "int" /\ a.n > 0
    \/ a.t = "float" /\ a.n > 0 /\ a.n % 10 = 0
    \/ a.t = "str" /\ IsIntegerText(Strip(a.s)) /\ IntOfStr(a.s).v > 0

\* the rows of the apartments of the table at start_row: those of the counted rows
\* with a value in column B, top to bottom
ApartmentRows(start_row) ==
    SelectSeq([i \in 1..NumApartments(start_row) |-> start_row + 1 + i],
              LAMBDA r : Cell(r, 2) # PyNone)

\* y is x without its leading and trailing whitespace
IsTrimOf(y, x) ==
    \E a \in 0..Len(x), b \in 0..Len(x) :
        /\ y = SubSeq(x, a + 1, b)
        /\ \A i \in 1..a : IsSpaceChar(x[i])
        /\ \A i \in (b + 1)..Len(x) : IsSpaceChar(x[i])
        /\ y # <<>> => ~ IsSpaceChar(y[1]) /\ ~ IsSpaceChar(y[Len(y)])

\* the day columns of the calendar: C is the first
DayColumns(name) == 1..Len(DateNumbers(name))

-----------------------------------------------------------------------------
(* C1 *)

\* C1: parse_sheet_date never raises; it returns (month, year) with 1 <= month <= 12,
\* month the number of the abbreviation and year the number the text denotes, exactly
\* when the name is one of the twelve abbreviations, one space, and a numeric year (a
\* text int() reads as an integer); for every other name it returns (None, None).
C1_SheetDate ==
    ret.op = "parse_sheet_date" =>
        /\ ret.out.kind = "return"
        /\ ret.out.val.some => 1 <= ret.out.val.month /\ ret.out.val.month <= 12
        /\ \A m \in 1..12 :
              IsMonthYearName(ret.name, m) =>
                  /\ ret.out.val.some
                  /\ ret.out.val.month = m
                  /\ IsDigitStr(YearText(ret.name)) =>
                        /\ ret.out.val.year >= 0
                        /\ ZeroPad(NatStr(ret.out.val.year), Len(YearText(ret.name)))
                              = YearText(ret.name)
        /\ (~ \E m \in 1..12 : IsMonthYearName(ret.name, m)) => ret.out.val = NoDate

C1_Witness ==
    /\ ret.op = "parse_sheet_date"
    /\ ret.name = sDic2025
    /\ ret.out = Return([month |-> 12, year |-> 2025, some |-> TRUE])

-----------------------------------------------------------------------------
(* C2 *)

\* C2: find_building_rows returns row r of the scanned range if and only if column A
\* of r holds a positive integer (or text that reads as one), column B of r is not
\* empty and column A of r + 1 holds the header marker.
C2_BuildingStartIff ==
    Called("find_building_rows") =>
        \A r \in SCAN_FIRST..(SCAN_STOP - 1) :
            (\E i \in 1..Len(ret.out.val) : ret.out.val[i] = r)
                <=> /\ IsPositiveIntegerValue(Cell(r, 1))
                    /\ Cell(r, 2) # PyNone
                    /\ Cell(r + 1, 1) = PyStr(HEADER_MARKER)

-----------------------------------------------------------------------------
(* C3 *)

\* C3: of two rows r1 < r2 that find_building_rows returns, r2 lies after the last
\* apartment row of the table at r1, which is r1 + 1 + its apartment count.
C3_TablesDisjoint ==
    Called("find_building_rows") =>
        \A i, j \in 1..Len(ret.out.val) :
            i < j => ret.out.val[j] > ret.out.val[i] + 1 + NumApartments(ret.out.val[i])

-----------------------------------------------------------------------------
(* C4 *)

\* C4: parse_building_table returns the empty dict for a start row whose building
\* name contains an excluded name, and no building of a document that parse_sheet
\* returns has such a name.
C4_Exclusion ==
    /\ Called("parse_building_table") /\ NamesExcludedBuilding(Cell(ret.row, 2))
          => ret.out = Return(EmptyDict)
    /\ Returned("parse_sheet")
          => \A k \in 1..Len(ret.out.val.buildings) :
                ~ NamesExcludedBuilding(ret.out.val.buildings[k].name)

\* a document with a building, of a sheet that has a located table of an excluded name
C4_Witness ==
    /\ Returned("parse_sheet")
    /\ Len(ret.out.val.buildings) = 1
    /\ \E r \in CallRows : IsBuildingStart(r) /\ NamesExcludedBuilding(Cell(r, 2))

-----------------------------------------------------------------------------
(* C5 *)

\* C5: every reservation of an apartment row comes from one day column j: its date is
\* the date of the header cell of column j and its rate the value of the row's cell
\* in column j; a column whose header cell gives no date yields no reservation (the
\* files keep the values of a row distinct, so a rate names its column).
C5_Alignment ==
    Returned("parse_building_table") =>
        LET d == ParseSheetDate(ret.name)
            rows == ApartmentRows(ret.row)
            apts == ret.out.val.apartments
        IN  \A k \in 1..Len(apts) :
                \A i \in 1..Len(apts[k].reservations) :
                    LET res == apts[k].reservations[i]
                    IN  /\ \E j \in DayColumns(ret.name) :
                              /\ HeaderDate(d, Cell(5, j + 2)) = PyStr(res.date)
                              /\ Cell(rows[k], j + 2) # PyNone
                              /\ res.rate = PyStr(PyStrOf(Cell(rows[k], j + 2)))
                        /\ \A j \in DayColumns(ret.name) :
                              HeaderDate(d, Cell(5, j + 2)) = PyNone /\ Cell(rows[k], j + 2) # PyNone
                                  => res.rate # PyStr(PyStrOf(Cell(rows[k], j + 2)))

\* column C has a header that is no day, column D has one, and the row has both cells
C5_Witness ==
    /\ Returned("parse_building_table")
    /\ Cell(5, 3) = PyStr(<<"x">>) /\ Cell(5, 4) = PyInt(1)
    /\ Cell(8, 3) # PyNone /\ Cell(8, 4) # PyNone
    /\ Len(ret.out.val.apartments) > 0
    /\ Len(ret.out.val.apartments[1].reservations) = 1

-----------------------------------------------------------------------------
(* C6 *)

\* C6: a building record carries the month and year of the sheet name, and the date
\* of each of its reservations is a day of that month of that year.
C6_DatesInMonth ==
    Returned("parse_building_table") =>
        LET b == ret.out.val
        IN  /\ IsMonthYearName(ret.name, b.month)
            /\ ZeroPad(NatStr(b.year), 4) = YearText(ret.name)
            /\ \A k \in 1..Len(b.apartments) :
                  \A i \in 1..Len(b.apartments[k].reservations) :
                      \E day \in 1..DaysInMonth(b.year, b.month) :
                          b.apartments[k].reservations[i].date = IsoFormat(b.year, b.month, day)

\* April: the header of column C is 31 and that of column D is 1, both cells hold a rate
C6_Witness ==
    /\ Returned("parse_building_table")
    /\ sheetName = sAbr2025
    /\ Cell(5, 3) = PyInt(31) /\ Cell(5, 4) = PyInt(1)
    /\ Cell(8, 3) # PyNone /\ Cell(8, 4) # PyNone
    /\ Len(ret.out.val.apartments) > 0
    /\ Len(ret.out.val.apartments[1].reservations) = 1

-----------------------------------------------------------------------------
(* C7 *)

\* C7: parse_sheet does not raise whatever the cells hold, and every located table
\* that parse_building_table extracts on its own is in the document it returns.
C7_NeverRaises ==
    Called("parse_sheet") /\ ParseSheetDate(ret.name).some =>
        /\ ret.out.kind = "return"
        /\ \A r \in CallRows :
              LET b == ParseBuildingTable(ret.name, r)
              IN  IsBuildingStart(r) /\ b.kind = "return" /\ ~ b.val.empty =>
                      /\ ~ ret.out.val.empty
                      /\ \E k \in 1..Len(ret.out.val.buildings) : ret.out.val.buildings[k] = b.val

-----------------------------------------------------------------------------
(* C8 *)

\* C8: parse_sheet returns the empty dict exactly when no workbook is loaded, the sheet
\* name gives no (month, year) or find_building_rows finds no row; otherwise it returns
\* a document with the month and year of the name whose buildings are the non-empty
\* results of parse_building_table on the located rows, in the order of the rows.
C8_Document ==
    ret.op = "parse_sheet" =>
        LET d == ParseSheetDate(ret.name)
            located == FindBuildingRows(ret.name)
            kept == SelectSeq(located, LAMBDA r : ParseBuildingTable(ret.name, r) # Return(EmptyDict))
        IN  /\ ret.out.kind = "return"
            /\ ret.out.val.empty <=> (workbook # "loaded" \/ ~ d.some \/ located = <<>>)
            /\ ~ ret.out.val.empty =>
                  /\ ret.out.val.month = d.month /\ ret.out.val.year = d.year
                  /\ Len(ret.out.val.buildings) = Len(kept)
                  /\ \A k \in 1..Len(kept) :
                        /\ Return(ret.out.val.buildings[k]) = ParseBuildingTable(ret.name, kept[k])
                        /\ ret.out.val.buildings[k].month = d.month
                        /\ ret.out.val.buildings[k].year = d.year

-----------------------------------------------------------------------------
(* C9 *)

\* C9: the apartment records of a table are those of its rows with a value in column
\* B, in row order, raw_text being that value as it is; for a non-empty text t, in a
\* building whose name holds "OTROS APARTAMENTOS" code is None and owner is t, and in
\* any other building code is the trimmed text before the last '-' of t and owner the
\* trimmed text after it (code t and owner empty when t has no '-').
C9_ApartmentIdentity ==
    Returned("parse_building_table") =>
        LET rows == ApartmentRows(ret.row)
            apts == ret.out.val.apartments
            bname == Cell(ret.row, 2)
            otros == bname.t = "str" /\ HasSubstring(bname.s, OTROS_APARTAMENTOS)
        IN  /\ Len(apts) = Len(rows)
            /\ \A k \in 1..Len(apts) :
                  LET a == apts[k]
                      t == a.raw_text.s
                  IN  /\ a.raw_text = Cell(rows[k], 2)
                      /\ a.raw_text.t = "str" /\ t # <<>> =>
                            IF otros THEN a.code = PyNone /\ a.owner = PyStr(t)
                            ELSE IF \A i \in 1..Len(t) : t[i] # "-"
                            THEN a.code = PyStr(t) /\ a.owner = PyStr(<<>>)
                            ELSE \E i \in 1..Len(t) :
                                    /\ t[i] = "-"
                                    /\ \A h \in (i + 1)..Len(t) : t[h] # "-"
                                    /\ a.code.t = "str" /\ a.owner.t = "str"
                                    /\ IsTrimOf(a.code.s, SubSeq(t, 1, i - 1))
                                    /\ IsTrimOf(a.owner.s, SubSeq(t, i + 1, Len(t)))

\* "1 - A - b" in a building that is not the dedicated one: code "1 - A", owner "b"
C9_Witness ==
    /\ Returned("parse_building_table")
    /\ ~ IsOtros(Cell(ret.row, 2))
    /\ \E k \in 1..Len(ret.out.val.apartments) :
          /\ ret.out.val.apartments[k].raw_text = PyStr(sApt2)
          /\ ret.out.val.apartments[k].code = PyStr(<<"1", " ", "-", " ", "A">>)
          /\ ret.out.val.apartments[k].owner = PyStr(<<"b">>)

-----------------------------------------------------------------------------
(* C10 *)

\* C10: no two reservation records of one apartment record have the same date.
C10_OnePerDay ==
    Returned("parse_building_table") =>
        \A k \in 1..Len(ret.out.val.apartments) :
            LET rs == ret.out.val.apartments[k].reservations
            IN  \A i, j \in 1..Len(rs) : i # j => rs[i].date # rs[j].date

-----------------------------------------------------------------------------
(* C11 *)

\* C11: for every apartment row and every day column whose header cell gives a date,
\* the row's reservations hold a record of that column (its date, the cell's value as
\* rate) if and only if the row's cell in that column holds a value; the reservations
\* are as many as the dated columns whose cell holds a value.
C11_RecordIffValue ==
    Returned("parse_building_table") =>
        LET d == ParseSheetDate(ret.name)
            rows == ApartmentRows(ret.row)
            apts == ret.out.val.apartments
        IN  \A k \in 1..Len(apts) :
                LET rs == apts[k].reservations
                    dated == {j \in DayColumns(ret.name) : HeaderDate(d, Cell(5, j + 2)) # PyNone}
                IN  /\ \A j \in dated :
                          (\E i \in 1..Len(rs) :
                              /\ PyStr(rs[i].date) = HeaderDate(d, Cell(5, j + 2))
                              /\ rs[i].rate = PyStr(PyStrOf(Cell(rows[k], j + 2))))
                              <=> Cell(rows[k], j + 2) # PyNone
                    /\ Len(rs) = Cardinality({j \in dated : Cell(rows[k], j + 2) # PyNone})

\* row 9 has no value in column C and one in column D, and both columns have a date
C11_Witness ==
    /\ Returned("parse_building_table")
    /\ ret.row = 6
    /\ HeaderDate(ParseSheetDate(ret.name), Cell(5, 3)) # PyNone
    /\ HeaderDate(ParseSheetDate(ret.name), Cell(5, 4)) # PyNone
    /\ Cell(9, 2) # PyNone /\ Cell(9, 3) = PyNone /\ Cell(9, 4) # PyNone
    /\ Len(ret.out.val.apartments) = 2
    /\ Len(ret.out.val.apartments[2].reservations) = 1

-----------------------------------------------------------------------------
(* C12 *)

-----------------------------------------------------------------------------
(* C13 *)

\* C13: the apartments of a building record follow the rows of the table from top to
\* bottom, and the reservations of an apartment record follow the columns from left
\* to right: record k is of the k-th row with a value in column B, and reservation i
\* of the i-th dated column with a value in that row.
C13_SourceOrder ==
    Returned("parse_building_table") =>
        LET d == ParseSheetDate(ret.name)
            rows == ApartmentRows(ret.row)
            apts == ret.out.val.apartments
        IN  /\ Len(apts) = Len(rows)
            /\ \A k \in 1..(Len(rows) - 1) : rows[k] < rows[k + 1]
            /\ \A k \in 1..Len(apts) :
                  LET rs == apts[k].reservations
                      cols == SelectSeq([j \in 1..Len(DateNumbers(ret.name)) |-> j],
                                        LAMBDA j : /\ HeaderDate(d, Cell(5, j + 2)) # PyNone
                                                   /\ Cell(rows[k], j + 2) # PyNone)
                  IN  /\ apts[k].raw_text = Cell(rows[k], 2)
                      /\ Len(rs) = Len(cols)
                      /\ \A i \in 1..Len(rs) :
                            /\ PyStr(rs[i].date) = HeaderDate(d, Cell(5, cols[i] + 2))
                            /\ rs[i].rate = PyStr(PyStrOf(Cell(rows[k], cols[i] + 2)))

\* two apartments of different text, and two reservations of different rate and date
C13_Witness ==
    /\ Returned("parse_building_table")
    /\ Len(ret.out.val.apartments) = 2
    /\ ret.out.val.apartments[1].raw_text # ret.out.val.apartments[2].raw_text
    /\ Len(ret.out.val.apartments[1].reservations) = 2
    /\ ret.out.val.apartments[1].reservations[1].rate
          # ret.out.val.apartments[1].reservations[2].rate
    /\ ret.out.val.apartments[1].reservations[1].date
          # ret.out.val.apartments[1].reservations[2].date

-----------------------------------------------------------------------------
(* C14 *)

\* the reservations of the building record b, of the table at start_row, are dated by
\* the day-number cells of row header_row
DatedByRow(b, start_row, header_row) ==
    LET d == ParseSheetDate(sheetName)
        rows == ApartmentRows(start_row)
    IN  \A k \in 1..Len(b.apartments) :
            \A i \in 1..Len(b.apartments[k].reservations) :
                LET res == b.apartments[k].reservations[i]
                IN  \E j \in DayColumns(sheetName) :
                        /\ PyStr(res.date) = HeaderDate(d, Cell(header_row, j + 2))
                        /\ res.rate = PyStr(PyStrOf(Cell(rows[k], j + 2)))

\* C14: the header rows a building is read with are placed by its start_row: there is
\* one offset such that every building of the document parse_sheet returns has its
\* reservations dated by the day-number row at that offset from its own start row.
C14_HeaderRowsOfBuilding ==
    Returned("parse_sheet") =>
        LET kept == SelectSeq(FindBuildingRows(ret.name),
                              LAMBDA r : ParseBuildingTable(ret.name, r) # Return(EmptyDict))
        IN  \E offset \in (1 - SCAN_FIRST)..SCAN_FIRST :
                \A b \in 1..Len(ret.out.val.buildings) :
                    /\ kept[b] + offset >= 1
                    /\ DatedByRow(ret.out.val.buildings[b], kept[b], kept[b] + offset)

-----------------------------------------------------------------------------
(* C15 *)

\* the descriptor is a fill: a pattern, and not the sentinel start colour; a start
\* colour given as text reads the same as index and as rgb
IsFilled(fill) ==
    /\ fill.fill_type \notin {"None", "none"}
    /\ fill.index # PyStr(<<"0", "0", "0", "0", "0", "0", "0", "0">>)
    /\ fill.index.t = "str" => fill.rgb = fill.index

\* RRGGBB of a colour text: AARRGGBB without its alpha pair, or RRGGBB, in capitals
RgbOfText(t) == Upper(IF Len(t) = 8 THEN SubSeq(t, 3, 8) ELSE t)

\* the RRGGBB a fill denotes: that of its colour text; for a theme or indexed colour
\* that of the rgb it resolves to, else the legend's colour of that index; <<>> if none
DenotedRgb(fill) ==
    IF fill.index.t = "str" THEN RgbOfText(fill.index.s)
    ELSE IF fill.rgb.t = "str" THEN RgbOfText(fill.rgb.s)
    ELSE IF /\ fill.index.t \in {"int", "bool"}
            /\ \E e \in 1..Len(COLOR_LEGEND) :
                  COLOR_LEGEND[e].has_index /\ COLOR_LEGEND[e].index = fill.index.n
    THEN Tail(COLOR_LEGEND[CHOOSE e \in 1..Len(COLOR_LEGEND) :
                    COLOR_LEGEND[e].has_index /\ COLOR_LEGEND[e].index = fill.index.n].hex)
    ELSE <<>>

\* the call was _get_cell_color on a cell that has a fill
ColorOfFilledCell == Called("_get_cell_color") /\ IsFilled(Fill(ret.row, ret.col))

\* C15: two fills that denote the same #RRGGBB (with an alpha pair or without, in
\* either case of the letters, or as a theme or indexed colour of that RGB) get a
\* ColorInfo of the same value and the same meaning: here the fills of the cells in
\* columns C and D of an apartment row, in the reservations of that row.
C15_ColorLaw ==
    Returned("parse_building_table") =>
        \A k \in 1..Len(ret.out.val.apartments) :
            LET row_num == ApartmentRows(ret.row)[k]
                rs == ret.out.val.apartments[k].reservations
            IN  /\ Len(rs) = 2
                /\ IsFilled(Fill(row_num, 3)) /\ IsFilled(Fill(row_num, 4))
                /\ DenotedRgb(Fill(row_num, 3)) # <<>>
                /\ DenotedRgb(Fill(row_num, 3)) = DenotedRgb(Fill(row_num, 4))
                => /\ rs[1].color # PyNone /\ rs[2].color # PyNone
                   /\ rs[1].color.value = rs[2].color.value
                   /\ rs[1].color.meaning = rs[2].color.meaning

-----------------------------------------------------------------------------
(* C16 *)

\* the meanings of the legend entries of the colour code '#' rgb
MeaningsOfHex(rgb) ==
    {COLOR_LEGEND[e].meaning : e \in {i \in 1..Len(COLOR_LEGEND) :
                                          COLOR_LEGEND[i].hex = <<"#">> \o rgb}}

\* the meanings of the legend entries of the theme index k
MeaningsOfIndex(k) ==
    {COLOR_LEGEND[e].meaning : e \in {i \in 1..Len(COLOR_LEGEND) :
                                          COLOR_LEGEND[i].has_index /\ COLOR_LEGEND[i].index = k}}

\* C16: for a theme or indexed fill the legend is looked up by the normalized hex
\* first and, when the hex is of no legend entry (or there is no hex), by the index:
\* a fill whose rgb is not in the legend and whose index is that of a legend entry
\* gets the meaning of that entry.
C16_HexThenIndex ==
    ColorOfFilledCell /\ Fill(ret.row, ret.col).index.t = "int" =>
        LET fill == Fill(ret.row, ret.col)
            by_hex == IF fill.rgb.t = "str" THEN MeaningsOfHex(RgbOfText(fill.rgb.s)) ELSE {}
            by_index == MeaningsOfIndex(fill.index.n)
        IN  /\ ret.out.val # PyNone
            /\ by_hex # {} => ret.out.val.meaning \in by_hex
            /\ by_hex = {} /\ by_index # {} => ret.out.val.meaning \in by_index

-----------------------------------------------------------------------------
(* C17 *)

\* the colour of the fill is in the legend: its #RRGGBB is a colour code of the
\* legend, or its index is the index of a legend entry
InLegend(fill) ==
    \/ (fill.index.t = "str" \/ fill.rgb.t = "str") /\ MeaningsOfHex(DenotedRgb(fill)) # {}
    \/ fill.index.t \in {"int", "bool"} /\ MeaningsOfIndex(fill.index.n) # {}

\* C17: a result of _get_cell_color that is not None has a type among rgb, theme and
\* other and a value that is not None, and it has a meaning exactly when the colour
\* of the fill is in the legend.
C17_ColorInfoShape ==
    Called("_get_cell_color") /\ ret.out.val # PyNone =>
        /\ ret.out.val.type \in {"rgb", "theme", "other"}
        /\ ret.out.val.value # PyNone
        /\ ret.out.val.meaning # NoMeaning <=> InLegend(Fill(ret.row, ret.col))

-----------------------------------------------------------------------------
(* C18 *)

-----------------------------------------------------------------------------
(* C19 *)

\* the text is the decimal digits of the number day, possibly with leading zeros
IsNumeralOf(text, day) ==
    day >= 0 /\ text # <<>> /\ ZeroPad(NatStr(day), Len(text)) = text

\* the dates of the reservations of an apartment record whose rate is the value v
DatesOfRate(apt, v) ==
    {apt.reservations[i].date :
        i \in {h \in 1..Len(apt.reservations) : apt.reservations[h].rate = PyStr(PyStrOf(v))}}

\* C19: under one sheet name, a day-number header cell that holds the integer day and
\* one that holds the numeral of day as text give the same date: in each apartment row
\* with a value in both columns, the reservations of the two columns have the same
\* date, or neither column has one (the values of a row differ between columns).
C19_IntAndTextDay ==
    Returned("parse_building_table") =>
        LET rows == ApartmentRows(ret.row)
            apts == ret.out.val.apartments
        IN  \A j1, j2 \in DayColumns(ret.name) :
                /\ Cell(5, j1 + 2).t = "int" /\ Cell(5, j2 + 2).t = "str"
                /\ IsNumeralOf(Cell(5, j2 + 2).s, Cell(5, j1 + 2).n)
                => \A k \in 1..Len(apts) :
                      Cell(rows[k], j1 + 2) # PyNone /\ Cell(rows[k], j2 + 2) # PyNone
                          => DatesOfRate(apts[k], Cell(rows[k], j1 + 2))
                                = DatesOfRate(apts[k], Cell(rows[k], j2 + 2))

\* April 2025 with 1 in C5 and "1" in D5: the two reservations of row 8 are both of
\* 2025-04-01
C19_Witness ==
    /\ Returned("parse_building_table")
    /\ sheetName = sAbr2025
    /\ Cell(5, 3) = PyInt(1) /\ Cell(5, 4) = PyStr(<<"1">>)
    /\ Len(ret.out.val.apartments) > 0
    /\ Len(ret.out.val.apartments[1].reservations) = 2
    /\ ret.out.val.apartments[1].reservations[1].date = IsoFormat(2025, 4, 1)
    /\ ret.out.val.apartments[1].reservations[2].date = IsoFormat(2025, 4, 1)

-----------------------------------------------------------------------------
(* C20 *)

\* the value does not read as an integer: no value, or text that is no integer text
IsNoInteger(a) ==
    \/ a.t = "none"
    \/ a.t = "str" /\ ~ IsIntegerText(Strip(a.s))

\* C20: when column A of start_row does not read as an integer, the rows processed are
\* the n rows from start_row + 2 on, n being the length of the run of cells of column
\* A with a value that starts there and ends before the first cell without one: the
\* apartment records are those of the rows of the run with a value in column B, in
\* order (the call returns, so the count has ended).
C20_FallbackCount ==
    Returned("parse_building_table") /\ IsNoInteger(Cell(ret.row, 1)) =>
        \E n \in 0..Cardinality(DOMAIN cells) :
            /\ \A i \in 1..n : Cell(ret.row + 1 + i, 1) # PyNone
            /\ Cell(ret.row + 2 + n, 1) = PyNone
            /\ LET run == SelectSeq([i \in 1..n |-> ret.row + 1 + i],
                                    LAMBDA r : Cell(r, 2) # PyNone)
                   apts == ret.out.val.apartments
               IN  /\ Len(apts) = Len(run)
                   /\ \A k \in 1..Len(run) : apts[k].raw_text = Cell(run[k], 2)

\* the count is text, column A has a value in row 8 and none in row 9, and row 9 has
\* an apartment text: one record, of row 8
C20_Witness ==
    /\ Returned("parse_building_table")
    /\ ret.row = 6
    /\ Cell(6, 1) = PyStr(<<"x">>)
    /\ Cell(8, 1) # PyNone /\ Cell(9, 1) = PyNone /\ Cell(9, 2) # PyNone
    /\ Len(ret.out.val.apartments) = 1
    /\ ret.out.val.apartments[1].raw_text = Cell(8, 2)

-----------------------------------------------------------------------------
(* C30 *)

\* the calendar columns the claim names: C through AD
FirstDayColumn == ColumnIndex(<<"C">>)

LastDayColumn == ColumnIndex(<<"A", "D">>)

\* C30: parse_building_table takes day headers and calendar cells from columns C..AD
\* only: an apartment record has at most 28 reservations (one per column of the span),
\* and every reservation has the date of a header cell of C..AD and, as rate, the value
\* of the row's cell in that same column; nothing of AE or beyond is in the output, in
\* a month of 30 days and in one of 31.
C30_ColumnSpan ==
    Returned("parse_building_table") =>
        LET d == ParseSheetDate(ret.name)
            rows == ApartmentRows(ret.row)
            apts == ret.out.val.apartments
        IN  \A k \in 1..Len(apts) :
                LET rs == apts[k].reservations
                IN  /\ Len(rs) <= LastDayColumn - FirstDayColumn + 1
                    /\ \A i \in 1..Len(rs) :
                          \E c \in FirstDayColumn..LastDayColumn :
                              /\ Cell(rows[k], c) # PyNone
                              /\ PyStr(rs[i].date) = HeaderDate(d, Cell(5, c))
                              /\ rs[i].rate = PyStr(PyStrOf(Cell(rows[k], c)))

\* every column of C..AD gave a reservation, and AE holds a day number and a value
C30_Witness ==
    /\ Returned("parse_building_table")
    /\ Cell(5, LastDayColumn + 1) # PyNone
    /\ Cell(8, LastDayColumn + 1) # PyNone
    /\ Len(ret.out.val.apartments) = 1
    /\ Len(ret.out.val.apartments[1].reservations) = LastDayColumn - FirstDayColumn + 1

-----------------------------------------------------------------------------
(* C21 *)

\* what the call of parser i returns when no other parser is at work: parse_sheet as
\* one step, on the handle of parser i
Alone(i) ==
    IF parsers[i].workbook = "loaded" THEN ParseSheet(parsers[i].name) ELSE Return(EmptyDict)

\* C21: two parser objects, each with its own workbook handle, run parse_sheet at the
\* same time; whatever the interleaving of their steps, the call of each returns what it
\* returns when run alone (the same document, the same empty dict or the same
\* exception): no step of one changes what the other computes.
C21_Isolation ==
    \A i \in DOMAIN parsers : parsers[i].pc = "done" => parsers[i].out = Alone(i)

\* both calls are over and each returned a document of two buildings
C21_Witness ==
    /\ parsers # Idle
    /\ \A i \in ParserIds :
          /\ parsers[i].pc = "done"
          /\ parsers[i].out.kind = "return"
          /\ ~ parsers[i].out.val.empty
          /\ Len(parsers[i].out.val.buildings) = 2

-----------------------------------------------------------------------------
(* C23 *)

\* a text that reads as a plain number: blanks around, a sign, digits with at most one
\* point among them
IsPlainNumber(s) ==
    LET b == Strip(s)
        body == IF b # <<>> /\ b[1] \in {"+", "-"} THEN Tail(b) ELSE b
    IN  /\ \E i \in 1..Len(body) : IsDigitChar(body[i])
        /\ \A i \in 1..Len(body) : IsDigitChar(body[i]) \/ body[i] = "."
        /\ Cardinality({i \in 1..Len(body) : body[i] = "."}) <= 1

\* a rate text the claim names: empty, "False", or no number
IsMalformedRate(s) == s = <<>> \/ s = <<"F", "a", "l", "s", "e">> \/ ~ IsPlainNumber(s)

\* the reservations of the imported document that a stored row may come from: those of
\* the row's apartment with the row's date
SourcesOf(row) ==
    LET apt == db.apartments[row.apartment_id]
        bs == jobs.sheet_data.buildings
    IN  {r \in UNION {UNION {{bs[b].apartments[a].reservations[i]
                                 : i \in 1..Len(bs[b].apartments[a].reservations)}
                             : a \in {a \in 1..Len(bs[b].apartments) :
                                         bs[b].apartments[a].raw_text = apt.raw_text}}
                      : b \in {b \in 1..Len(bs) : bs[b].name = apt.building}}
           : r.date = row.date}

\* C23: malformed rate content fails neither the table nor the import.  A call of
\* parse_building_table on a table whose apartment cells are text returns, and every
\* calendar cell with a value under a dated header gives a reservation whose rate is
\* the text of that value, whatever the value (a number, False, any text).  A call of
\* import_sheet_data on the parsed document returns a log id, and every stored
\* reservation comes from a reservation of the document with its date whose rate text
\* is a number, or is empty, "False" or no number and then the stored rate is 0.0.
C23_RateTolerated ==
    /\ Called("parse_building_table")
         /\ (\A k \in 1..Len(ApartmentRows(ret.row)) :
                Cell(ApartmentRows(ret.row)[k], 2).t = "str")
         => /\ ret.out.kind = "return"
            /\ ~ ret.out.val.empty =>
                 \A k \in 1..Len(ApartmentRows(ret.row)), j \in DayColumns(ret.name) :
                     LET v == Cell(ApartmentRows(ret.row)[k], j + 2)
                         day == HeaderDate(ParseSheetDate(ret.name), Cell(5, j + 2))
                         rs == ret.out.val.apartments[k].reservations
                     IN  v # PyNone /\ day # PyNone =>
                            \E i \in 1..Len(rs) :
                                PyStr(rs[i].date) = day /\ rs[i].rate = PyStr(PyStrOf(v))
    /\ jobs # Idle /\ jobs.op = "import_sheet_data"
         => /\ jobs.out.kind = "return"
            /\ \A n \in 1..Len(db.reservations) :
                  \E r \in SourcesOf(db.reservations[n]) :
                      IF IsMalformedRate(r.rate.s)
                      THEN db.reservations[n].rate = ZeroFloat
                      ELSE db.reservations[n].rate # ZeroFloat

\* the document has a reservation whose rate is "False" and one whose rate is "x", and
\* both are stored with rate 0.0 by an import that returned
C23_Witness ==
    /\ jobs # Idle /\ jobs.op = "import_sheet_data" /\ jobs.out.kind = "return"
    /\ Len(db.reservations) = 2
    /\ \E n, m \in 1..2 :
          /\ \E r \in SourcesOf(db.reservations[n]) : r.rate.s = <<"F", "a", "l", "s", "e">>
          /\ \E r \in SourcesOf(db.reservations[m]) : r.rate.s = <<"x">>
    /\ \A n \in 1..2 : db.reservations[n].rate = ZeroFloat

-----------------------------------------------------------------------------
(* C26 *)

\* C26: an import of the document that the import before it imported, both returning,
\* leaves the booking rows and the reservation rows as they were before it, whether the
\* reservations carry a comment or not.
C26_ReimportIdempotent ==
    jobs # Idle /\ jobs.op = "import_sheet_data" /\ jobs.out.kind = "return"
        /\ jobs.previous_data = jobs.sheet_data
        => db.bookings = jobs.before.bookings /\ db.reservations = jobs.before.reservations

-----------------------------------------------------------------------------
(* C22 *)

\* an import job is modelled in this state
InJob == jobs # Idle /\ ongoing_imports # Idle

\* C22: when every requested sheet parses (to a document or to the empty dict) and at
\* least one gives a document, the job goes on to the importer with exactly the sheets
\* that gave a document, in their order, and ends 'completed' with one log for each of
\* them; when every requested sheet parses to the empty dict the job ends 'failed', no
\* sheet is passed to the importer and the database holds no row of the job.
C22_EmptySheetsTolerated ==
    InJob /\ jobs.pc # "parse" /\ jobs.requested # <<>>
          /\ (\A i \in 1..Len(jobs.requested) : jobs.requested[i] # "raise")
       => LET documents == {i \in 1..Len(jobs.requested) : jobs.requested[i] = "document"}
          IN  IF documents # {}
              THEN /\ Len(jobs.sheets) = Cardinality(documents)
                   /\ {jobs.sheets[j].name : j \in 1..Len(jobs.sheets)} = documents
                   /\ \A j \in 1..Len(jobs.sheets) :
                         /\ jobs.sheets[j].data = SheetDocument(jobs.sheets[j].name)
                         /\ j > 1 => jobs.sheets[j - 1].name < jobs.sheets[j].name
                   /\ jobs.pc = "done" =>
                         /\ ongoing_imports[JobId].status = "completed"
                         /\ Len(ongoing_imports[JobId].import_logs) = Cardinality(documents)
              ELSE /\ jobs.pc = "done"
                   /\ ongoing_imports[JobId].status = "failed"
                   /\ jobs.sheets = <<>>
                   /\ db = EmptyDb

\* a job that ended 'completed' on requested sheets of which the first parsed to the
\* empty dict and a later one to a document
C22_Witness ==
    /\ InJob /\ jobs.pc = "done"
    /\ Len(jobs.requested) = 3
    /\ jobs.requested[1] = "empty" /\ jobs.requested[2] = "document"
    /\ jobs.requested[3] = "empty"
    /\ ongoing_imports[JobId].status = "completed"
    /\ Len(db.import_logs) = 1

-----------------------------------------------------------------------------
(* C24 *)

\* the rows of the importer's data tables, the logs apart
DataRows(d) == <<d.apartments, d.bookings, d.reservations>>

-----------------------------------------------------------------------------
(* C27 *)

\* C27: when ongoing_imports holds 'completed' for the job's correlation id, no import
\* log with that correlation id is 'failed'.
C27_CompletedMeansNoFailedLog ==
    InJob /\ ongoing_imports[JobId].status = "completed"
       => \A k \in 1..Len(db.import_logs) :
              db.import_logs[k].correlation_id = JobId => db.import_logs[k].status # "failed"

-----------------------------------------------------------------------------
(* C25 *)

\* C25: whatever the interleaving of the select and the update-or-insert of two import
\* jobs, the reservations table holds at most one row for an apartment and a date.
C25_OneRowPerDay ==
    db # Idle =>
        \A k, l \in 1..Len(db.reservations) :
            /\ db.reservations[k].apartment_id = db.reservations[l].apartment_id
            /\ db.reservations[k].date = db.reservations[l].date
            => k = l

-----------------------------------------------------------------------------
(* C29 *)

\* the month k months before the month of a date
MonthsBefore(t, k) ==
    LET index == t.y * 12 + (t.m - 1) - k
    IN  [month |-> (index % 12) + 1, year |-> index \div 12]

\* the sheets of the N calendar months that end with the month of now
CalendarSheets(sheet_names, now, n) ==
    LET Wanted(s) ==
            /\ ParseSheetDate(s).some
            /\ \E k \in 0..(n - 1) :
                  /\ ParseSheetDate(s).month = MonthsBefore(now, k).month
                  /\ ParseSheetDate(s).year = MonthsBefore(now, k).year
    IN  SelectSeq(sheet_names, Wanted)

\* C29: with months_back = N, parse_excel_file selects exactly the sheets of the N
\* consecutive calendar months that end with the current month, whatever the current
\* date, and these are the sheets run_import_job selects with months = N.
C29_LastMonthsSelected ==
    sel # Idle =>
        /\ sel.cli.called =>
               sel.cli.valid_sheets = CalendarSheets(sel.sheet_names, sel.now, sel.months)
        /\ sel.cli.called /\ sel.job.called =>
               sel.cli.valid_sheets = sel.job.valid_sheets

-----------------------------------------------------------------------------
(* C28 *)

\* C28: after a run of the script with --dry-run no email has been sent, and status,
\* retry_count, last_retry_at and content of every stored communication are what they
\* were before the run, whichever communications are approved and however the send
\* attempts end.
C28_DryRunLeavesNoTrace ==
    (comms # Idle /\ comms.dry_run /\ comms.pc = "done") =>
        /\ comms.emails = <<>>
        /\ comms.stored = comms.before

====
